---- MODULE Spec2Model ----
(***************************************************************************)
(* WealthLens client data layer: stockDataService (per-symbol TTL cache,   *)
(* pending-request de-duplication, batched multi-symbol fetch),            *)
(* realTimeDataProvider (investment cache, fallback table) and the         *)
(* DataContext state coordinator (load / refresh / toggle / polling).      *)
(*                                                                         *)
(* JavaScript runs one macrotask (network settlement, timer, UI event) to  *)
(* completion together with the promise continuations it makes runnable:   *)
(* a macrotask action is enabled only when no continuation is runnable.    *)
(* Money is kept in integer hundredths (paise for INR, cents for USD),     *)
(* percentages in hundredths of a percent, time in milliseconds.           *)
(***************************************************************************)
EXTENDS Integers, Sequences, FiniteSets, TLC

\* ------------------------------------------------------------------ bounds
MaxPerSym == 2      \* fetchStockData promises alive at once for one symbol
MaxMulti  == 2      \* getMultipleStockPrices invocations alive at once
MaxDirect == 1      \* direct getStockPrice calls alive at once
MaxLoads  == 2      \* loadInitialData and refreshData executions alive at a time
MaxEnv    == 2      \* steps of the environment (clock, backend) in one behaviour
MaxCalls  == 2      \* calls made by callers and UI events delivered in one behaviour
MaxGri    == 2      \* getRealTimeInvestments calls alive at once

\* ------------------------------------------------------- program constants
CACHE_DURATION     == 120000
INV_CACHE_DURATION == 300000
batchSize          == 3
BATCH_DELAY        == 500
\* the clock is observed at these distances: both caches are seen strictly
\* inside and exactly at the end of their time to live
ClockSteps         == { CACHE_DURATION \div 2, INV_CACHE_DURATION - CACHE_DURATION \div 2 }

USER_PORTFOLIO_CONFIG ==
  << [ticker |-> "AAPL",  quantity |-> 100, purchaseValue |-> 15000],
     [ticker |-> "GOOGL", quantity |-> 10,  purchaseValue |-> 30000],
     [ticker |-> "MSFT",  quantity |-> 50,  purchaseValue |-> 15000],
     [ticker |-> "TSLA",  quantity |-> 25,  purchaseValue |-> 12000],
     [ticker |-> "NVDA",  quantity |-> 30,  purchaseValue |-> 18000] >>

\* symbols = USER_PORTFOLIO_CONFIG.map(config => config.ticker)
ConfigSymbols == [i \in 1..Len(USER_PORTFOLIO_CONFIG) |-> USER_PORTFOLIO_CONFIG[i].ticker]

\* symbol lists handed to getMultipleStockPrices by callers of the service:
\* one symbol, exactly one batch, and one batch and a symbol
ListUniverse == ConfigSymbols
ReqIds == { << ListUniverse[i], k >> : i \in 1..Len(ListUniverse), k \in 1..MaxPerSym }
SymbolLists  == { SubSeq(ListUniverse, 1, n) : n \in {1, batchSize, batchSize + 1} }
SvcSymbols   == { ListUniverse[i] : i \in 1..2 }

\* ---------------------------------------------------------------- helpers
Null == << >>
NoReq == << >>
Some(v) == << v >>
EmptyMap == << >>
Put(f, k, v) == [x \in (DOMAIN f) \cup {k} |-> IF x = k THEN v ELSE f[x]]
Del(f, k) == [x \in (DOMAIN f) \ {k} |-> f[x]]
Min(a, b) == IF a < b THEN a ELSE b
Abs(x) == IF x < 0 THEN -x ELSE x
\* Number.prototype.toFixed: x / d rounded to the nearest integer
RoundDiv(x, d) == IF x >= 0 THEN (2 * x + d) \div (2 * d) ELSE -((2 * (-x) + d) \div (2 * d))

VARIABLES
  now,                 \* Date.now()
  backendUp,           \* whether the backend answers at this moment
  cache,               \* StockDataService.cache: symbol -> {data, timestamp}
  pendingRequests,     \* StockDataService.pendingRequests: symbol -> promise
  reqs,                \* fetchStockData promises: id -> request record
  multi,               \* getMultipleStockPrices invocations
  direct,              \* getStockPrice calls made outside getMultipleStockPrices
  investmentCache,     \* RealTimeDataProvider.investmentCache
  lastInvestmentUpdate,\* RealTimeDataProvider.lastInvestmentUpdate
  gri,                 \* getRealTimeInvestments calls
  st,                  \* DataProvider: the useState values as last set
  loads,               \* DataProvider: loadInitialData and refreshData executions
  refreshCalls,        \* DataProvider: refreshData invocations so far
  view,                \* DataProvider: the state values the last render captured
  mounted,             \* DataProvider: the first render has been committed
  interval,            \* DataProvider: the setInterval callback, if one is armed
  retry,               \* the retryRequest call in progress, if any
  callsMade,           \* calls made so far by callers and events delivered so far
  envSteps             \* steps of the environment taken so far

svcVars  == << cache, pendingRequests, reqs, multi, direct >>
provVars == << investmentCache, lastInvestmentUpdate, gri >>
appVars  == << st, loads, refreshCalls >>
uiVars   == << view, mounted, interval >>
vars == << now, backendUp, svcVars, provVars, appVars, uiVars, retry, callsMade, envSteps >>

\* ------------------------------------------------------- backend responses
\* What fetch() settles with: a network error, a non-2xx status, a body that
\* is not JSON, JSON without an answer string, or an answer text of which
\* the labelled fields that the regexes can match are listed, each with the
\* characters its capture group holds.
Resp(k, p, c, pc, v) == [kind |-> k, price |-> p, change |-> c, prev |-> pc, volume |-> v]
FailResponses ==
  { Resp(k, Null, Null, Null, Null) : k \in {"neterr", "http", "badjson", "noanswer"} }

\* the captures of an answer text: what follows the rupee sign of 'Current
\* Price', of 'Change' (amount and percentage) and of 'Previous Close', and
\* the digits of 'Volume'
PriceCapture  == << "2", ",", "8", "5", "0", ".", "5", "5" >>
ChangeCapture == [amount |-> << "+", "1", "2", ".", "3", "0" >>, percent |-> << "0", ".", "4", "3" >>]
PrevCapture   == << "2", ",", "8", "3", "8", ".", "2", "5" >>
VolumeCapture == << "1", ",", "2", "3", "4", ",", "5", "6", "7" >>

\* text.replace(/,/g, '')
IsNotComma(c) == c # ","
StripCommas(text) == SelectSeq(text, IsNotComma)

DigitValue(c) == CHOOSE d \in 0..9 : ToString(d) = c
RECURSIVE DigitsValue(_, _)
DigitsValue(text, k) == IF k = 0 THEN 0 ELSE DigitsValue(text, k - 1) * 10 + DigitValue(text[k])

\* parseFloat of a signed decimal numeral, in hundredths
parseFloat(text) ==
  LET signed == Len(text) > 0 /\ text[1] \in {"+", "-"}
      body   == IF signed THEN SubSeq(text, 2, Len(text)) ELSE text
      dots   == { k \in 1..Len(body) : body[k] = "." }
      dot    == IF dots = {} THEN Len(body) + 1 ELSE CHOOSE k \in dots : \A j \in dots : k <= j
      whole  == SubSeq(body, 1, dot - 1)
      frac   == SubSeq(body \o << "0", "0" >>, dot + 1, dot + 2)
      value  == DigitsValue(whole, Len(whole)) * 100
                  + (IF dots = {} THEN 0 ELSE DigitsValue(frac, 2))
  IN IF signed /\ text[1] = "-" THEN -value ELSE value

\* parseInt of a numeral
parseInt(text) == DigitsValue(text, Len(text))

LivePrices == { parseFloat(StripCommas(PriceCapture)) }
\* every answer text: each labelled field present or not
AnswerResponses ==
  { Resp("answer", p, c, pc, v) :
      p \in {Null, Some(PriceCapture)}, c \in {Null, Some(ChangeCapture)},
      pc \in {Null, Some(PrevCapture)}, v \in {Null, Some(VolumeCapture)} }
StockResponses == FailResponses \cup AnswerResponses
\* the answer text of a backend that has the price and the change
LiveAnswer == Resp("answer", Some(PriceCapture), Some(ChangeCapture), Null, Null)
\* the two ways a request ends, for the callers that ask for lists
BatchResponses == { Resp("http", Null, Null, Null, Null), LiveAnswer }

getCompanyName(symbol) ==
  CASE symbol = "AAPL"  -> "Apple Inc."
    [] symbol = "GOOGL" -> "Alphabet Inc."
    [] symbol = "MSFT"  -> "Microsoft Corporation"
    [] symbol = "AMZN"  -> "Amazon.com Inc."
    [] symbol = "TSLA"  -> "Tesla Inc."
    [] symbol = "META"  -> "Meta Platforms Inc."
    [] symbol = "NVDA"  -> "NVIDIA Corporation"
    [] OTHER -> symbol \o " Corp."

\* the object parseStockResponse returns when the price is matched
StockPrice(response, symbol, t) ==
  LET currentPrice  == parseFloat(StripCommas(response.price[1]))
      change        == IF response.change # Null
                       THEN parseFloat(StripCommas(response.change[1].amount)) ELSE 0
      changePercent == IF response.change # Null
                       THEN parseFloat(response.change[1].percent) ELSE 0
      previousClose == IF response.prev # Null
                       THEN parseFloat(StripCommas(response.prev[1])) ELSE currentPrice - change
      volume        == IF response.volume # Null
                       THEN parseInt(StripCommas(response.volume[1])) ELSE 0
  IN [symbol |-> symbol, name |-> getCompanyName(symbol),
      current_price |-> currentPrice, change |-> change,
      change_percent |-> changePercent, previous_close |-> previousClose,
      open |-> previousClose, high |-> currentPrice + Abs(change),
      low |-> currentPrice - Abs(change), volume |-> volume,
      market_cap |-> "N/A", last_updated |-> t]

\* variant: the change line is mandatory as well
parseStockResponse_ChangeMandatory(response, symbol, t) ==
  IF response.kind # "answer" THEN Null
  ELSE IF response.price = Null \/ response.change = Null THEN Null
  ELSE Some(StockPrice(response, symbol, t))

\* parseStockResponse: null unless the answer text matches 'Current Price'
parseStockResponse(response, symbol, t) ==
  IF response.kind # "answer" THEN Null
  ELSE IF response.price = Null THEN Null
  ELSE Some(StockPrice(response, symbol, t))

\* ------------------------------------------------- the service as a value
\* The synchronous part of a call is a function from service state to
\* service state, so that a handler which makes several calls in one turn
\* is one action.
Cur ==
  [now |-> now, backendUp |-> backendUp, cache |-> cache,
   pendingRequests |-> pendingRequests, reqs |-> reqs, multi |-> multi, direct |-> direct,
   investmentCache |-> investmentCache, lastInvestmentUpdate |-> lastInvestmentUpdate,
   gri |-> gri, st |-> st, loads |-> loads, refreshCalls |-> refreshCalls,
   overflow |-> FALSE]

FreeIds(used, max) == (1..max) \ used
FirstFree(used, max) == CHOOSE i \in FreeIds(used, max) : \A j \in FreeIds(used, max) : i <= j

\* variant: an entry exactly CACHE_DURATION old still counts as fresh
CacheFresh_Inclusive(W, symbol) ==
  /\ symbol \in DOMAIN W.cache
  /\ W.now - W.cache[symbol].timestamp <= CACHE_DURATION

\* cached && Date.now() - cached.timestamp < CACHE_DURATION
CacheFresh(W, symbol) ==
  /\ symbol \in DOMAIN W.cache
  /\ W.now - W.cache[symbol].timestamp < CACHE_DURATION

\* variant: no look-up in pendingRequests before fetching
getStockPrice_NoPendingCheck(W, symbol, by) ==
  IF CacheFresh(W, symbol)
  THEN [W |-> W,
        call |-> [sym |-> symbol, req |-> NoReq, done |-> TRUE,
                  val |-> Some(W.cache[symbol].data), how |-> "cache"]]
  ELSE IF FreeIds({ k \in 1..MaxPerSym : << symbol, k >> \in DOMAIN W.reqs }, MaxPerSym) = {}
  THEN [W |-> [W EXCEPT !.overflow = TRUE],
        call |-> [sym |-> symbol, req |-> NoReq, done |-> FALSE, val |-> Null, how |-> "none"]]
  ELSE LET r == << symbol, FirstFree({ k \in 1..MaxPerSym : << symbol, k >> \in DOMAIN W.reqs }, MaxPerSym) >>
       IN [W |-> [W EXCEPT
                    !.reqs = Put(@, r, [sym |-> symbol, settled |-> FALSE, result |-> Null,
                                         response |-> Null, by |-> by]),
                    !.pendingRequests = Put(@, symbol, r)],
           call |-> [sym |-> symbol, req |-> r, done |-> FALSE, val |-> Null, how |-> "fetch"]]

\* getStockPrice up to its first await: the caller's view of the call
\* (call) and the service state it leaves (W).
getStockPrice(W, symbol, by) ==
  IF CacheFresh(W, symbol)
  THEN [W |-> W,
        call |-> [sym |-> symbol, req |-> NoReq, done |-> TRUE,
                  val |-> Some(W.cache[symbol].data), how |-> "cache"]]
  ELSE IF symbol \in DOMAIN W.pendingRequests
  THEN [W |-> W,
        call |-> [sym |-> symbol, req |-> W.pendingRequests[symbol], done |-> FALSE,
                  val |-> Null, how |-> "join"]]
  ELSE IF FreeIds({ k \in 1..MaxPerSym : << symbol, k >> \in DOMAIN W.reqs }, MaxPerSym) = {}
  THEN [W |-> [W EXCEPT !.overflow = TRUE],
        call |-> [sym |-> symbol, req |-> NoReq, done |-> FALSE, val |-> Null, how |-> "none"]]
  ELSE LET r == << symbol, FirstFree({ k \in 1..MaxPerSym : << symbol, k >> \in DOMAIN W.reqs }, MaxPerSym) >>
       IN [W |-> [W EXCEPT
                    !.reqs = Put(@, r, [sym |-> symbol, settled |-> FALSE, result |-> Null,
                                         response |-> Null, by |-> by]),
                    !.pendingRequests = Put(@, symbol, r)],
           call |-> [sym |-> symbol, req |-> r, done |-> FALSE, val |-> Null, how |-> "fetch"]]

\* promises = batch.map(symbol => this.getStockPrice(symbol)), left to right
RECURSIVE MapGetStockPrice(_, _, _, _)
MapGetStockPrice(W, batch, k, m) ==
  IF k > Len(batch) THEN [W |-> W, calls |-> << >>]
  ELSE LET one  == getStockPrice(W, batch[k], m)
           rest == MapGetStockPrice(one.W, batch, k + 1, m)
       IN [W |-> rest.W, calls |-> << one.call >> \o rest.calls]

\* variant: batches of four
StartBatch_Four(W, m) ==
  LET inv   == W.multi[m]
      batch == SubSeq(inv.symbols, inv.i + 1, Min(inv.i + batchSize + 1, Len(inv.symbols)))
      res   == MapGetStockPrice(W, batch, 1, m)
  IN [res.W EXCEPT !.multi = Put(@, m, [inv EXCEPT !.phase = "batch", !.slots = res.calls,
                                                    !.timer = 0])]

\* one iteration of the for loop of getMultipleStockPrices up to Promise.all
StartBatch(W, m) ==
  LET inv   == W.multi[m]
      batch == SubSeq(inv.symbols, inv.i + 1, Min(inv.i + batchSize, Len(inv.symbols)))
      res   == MapGetStockPrice(W, batch, 1, m)
  IN [res.W EXCEPT !.multi = Put(@, m, [inv EXCEPT !.phase = "batch", !.slots = res.calls,
                                                    !.timer = 0])]

\* getMultipleStockPrices up to its first await
getMultipleStockPrices(W, m, symbols, owner) ==
  LET inv == [symbols |-> symbols, i |-> 0, slots |-> << >>, results |-> EmptyMap,
              phase |-> "batch", delays |-> 0, timer |-> 0, owner |-> owner]
  IN IF Len(symbols) = 0
     THEN [W EXCEPT !.multi = Put(@, m, [inv EXCEPT !.phase = "done"])]
     ELSE StartBatch([W EXCEPT !.multi = Put(@, m, inv)], m)

\* requests whose promise nobody holds any more are forgotten
Referenced(W) ==
  { W.pendingRequests[s] : s \in DOMAIN W.pendingRequests }
    \cup { W.direct[d].req : d \in DOMAIN W.direct }
    \cup UNION { { W.multi[m].slots[k].req : k \in DOMAIN W.multi[m].slots } : m \in DOMAIN W.multi }
Collect(W) ==
  [W EXCEPT !.reqs = [r \in (DOMAIN W.reqs) \cap Referenced(W) |-> W.reqs[r]]]

\* clearCache
clearCache(W) == [W EXCEPT !.cache = EmptyMap]

\* the continuation of one getStockPrice call awaiting promise r
SettleCall(c, r, result) ==
  IF c.req = r /\ ~c.done THEN [c EXCEPT !.done = TRUE, !.val = result] ELSE c

\* variant: a failed fetch evicts the entry of the symbol
fetchStockDataSettle_EvictOnFailure(W, r, response) ==
  LET symbol    == W.reqs[r].sym
      stockData == IF response.kind \in {"neterr", "http", "badjson"} THEN Null
                   ELSE parseStockResponse(response, symbol, W.now)
      W1 == IF stockData # Null
            THEN [W EXCEPT !.cache = Put(@, symbol, [data |-> stockData[1], timestamp |-> W.now])]
            ELSE [W EXCEPT !.cache = Del(@, symbol)]
  IN [W1 EXCEPT
        !.reqs[r] = [@ EXCEPT !.settled = TRUE, !.result = stockData,
                              !.response = Some(response)],
        !.pendingRequests = Del(@, symbol),
        !.direct = [d \in DOMAIN @ |-> SettleCall(@[d], r, stockData)],
        !.multi = [m \in DOMAIN @ |->
                     [@[m] EXCEPT !.slots = [k \in DOMAIN @ |-> SettleCall(@[k], r, stockData)]]]]

\* variant: the pending entry is deleted only when the fetch gave a result
fetchStockDataSettle_KeepPendingOnFailure(W, r, response) ==
  LET symbol    == W.reqs[r].sym
      stockData == IF response.kind \in {"neterr", "http", "badjson"} THEN Null
                   ELSE parseStockResponse(response, symbol, W.now)
      W1 == IF stockData # Null
            THEN [W EXCEPT !.cache = Put(@, symbol, [data |-> stockData[1], timestamp |-> W.now])]
            ELSE W
  IN [W1 EXCEPT
        !.reqs[r] = [@ EXCEPT !.settled = TRUE, !.result = stockData,
                              !.response = Some(response)],
        !.pendingRequests = IF stockData # Null THEN Del(@, symbol) ELSE @,
        !.direct = [d \in DOMAIN @ |-> SettleCall(@[d], r, stockData)],
        !.multi = [m \in DOMAIN @ |->
                     [@[m] EXCEPT !.slots = [k \in DOMAIN @ |-> SettleCall(@[k], r, stockData)]]]]

\* fetchStockData from the settlement of fetch() to its return, then the
\* continuation of every getStockPrice call awaiting the promise: the
\* originator's finally block deletes the pending entry of the symbol.
fetchStockDataSettle(W, r, response) ==
  LET symbol    == W.reqs[r].sym
      stockData == IF response.kind \in {"neterr", "http", "badjson"} THEN Null
                   ELSE parseStockResponse(response, symbol, W.now)
      W1 == IF stockData # Null
            THEN [W EXCEPT !.cache = Put(@, symbol, [data |-> stockData[1], timestamp |-> W.now])]
            ELSE W
  IN [W1 EXCEPT
        !.reqs[r] = [@ EXCEPT !.settled = TRUE, !.result = stockData,
                              !.response = Some(response)],
        !.pendingRequests = Del(@, symbol),
        !.direct = [d \in DOMAIN @ |-> SettleCall(@[d], r, stockData)],
        !.multi = [m \in DOMAIN @ |->
                     [@[m] EXCEPT !.slots = [k \in DOMAIN @ |-> SettleCall(@[k], r, stockData)]]]]

\* ------------------------------------------------- real-time data provider
\* fallbackPrices of getFallbackInvestment
fallbackPrices(ticker) ==
  CASE ticker = "AAPL"  -> [price |-> 17523,  change |-> 245,   changePercent |-> 142]
    [] ticker = "GOOGL" -> [price |-> 284756, change |-> -1523, changePercent |-> -53]
    [] ticker = "MSFT"  -> [price |-> 33178,  change |-> 412,   changePercent |-> 126]
    [] ticker = "TSLA"  -> [price |-> 24850,  change |-> -320,  changePercent |-> -127]
    [] ticker = "NVDA"  -> [price |-> 87530,  change |-> 1245,  changePercent |-> 144]
    [] OTHER            -> [price |-> 10000,  change |-> 0,     changePercent |-> 0]

getFallbackInvestment(config, index) ==
  LET fallback == fallbackPrices(config.ticker)
  IN [id |-> ToString(index + 1), ticker |-> config.ticker,
      name |-> getCompanyName(config.ticker),
      price |-> fallback.price, change |-> fallback.change,
      changePercent |-> fallback.changePercent, type |-> "stock",
      currentValue |-> fallback.price * config.quantity,
      purchaseValue |-> config.purchaseValue, quantity |-> config.quantity]

getFallbackInvestments ==
  [k \in 1..Len(USER_PORTFOLIO_CONFIG) |-> getFallbackInvestment(USER_PORTFOLIO_CONFIG[k], k - 1)]

\* the position built from live data: INR to USD at 0.012, two decimals
LiveInvestment(config, index, stockData) ==
  [id |-> ToString(index + 1), ticker |-> config.ticker, name |-> stockData.name,
   price |-> RoundDiv(stockData.current_price * 12, 1000),
   change |-> RoundDiv(stockData.change * 12, 1000),
   changePercent |-> RoundDiv(stockData.change_percent, 1), type |-> "stock",
   currentValue |-> RoundDiv(stockData.current_price * 12 * config.quantity, 1000),
   purchaseValue |-> config.purchaseValue, quantity |-> config.quantity]

\* variant: a position without live data is left out of the list
BuildInvestments_SkipMissing(stockPrices) ==
  LET present == { k \in 1..Len(USER_PORTFOLIO_CONFIG) :
                     USER_PORTFOLIO_CONFIG[k].ticker \in DOMAIN stockPrices }
  IN IF present = 1..Len(USER_PORTFOLIO_CONFIG)
     THEN [k \in 1..Len(USER_PORTFOLIO_CONFIG) |->
             LiveInvestment(USER_PORTFOLIO_CONFIG[k], k - 1,
                            stockPrices[USER_PORTFOLIO_CONFIG[k].ticker])]
     ELSE << >>

\* variant: one missing price makes every position a fallback
BuildInvestments_AllOrNothing(stockPrices) ==
  [k \in 1..Len(USER_PORTFOLIO_CONFIG) |->
     LET config == USER_PORTFOLIO_CONFIG[k]
     IN IF \A j \in 1..Len(USER_PORTFOLIO_CONFIG) :
             USER_PORTFOLIO_CONFIG[j].ticker \in DOMAIN stockPrices
        THEN LiveInvestment(config, k - 1, stockPrices[config.ticker])
        ELSE getFallbackInvestment(config, k - 1)]

\* USER_PORTFOLIO_CONFIG.map((config, index) => ...) of getRealTimeInvestments
BuildInvestments(stockPrices) ==
  [k \in 1..Len(USER_PORTFOLIO_CONFIG) |->
     LET config == USER_PORTFOLIO_CONFIG[k]
     IN IF config.ticker \in DOMAIN stockPrices
        THEN LiveInvestment(config, k - 1, stockPrices[config.ticker])
        ELSE getFallbackInvestment(config, k - 1)]

\* variant: a list of exactly CACHE_DURATION of age is still served
InvestmentCacheFresh_Inclusive(W) ==
  /\ W.investmentCache # Null
  /\ W.now - W.lastInvestmentUpdate <= INV_CACHE_DURATION

\* investmentCache && Date.now() - lastInvestmentUpdate < CACHE_DURATION
InvestmentCacheFresh(W) ==
  /\ W.investmentCache # Null
  /\ W.now - W.lastInvestmentUpdate < INV_CACHE_DURATION

\* getRealTimeInvestments up to its first await.  The frame also notes what
\* the call met: whether the backend was down, and whether neither cache
\* held anything fresh for it (cold).
getRealTimeInvestments(W, g, owner, load, op) ==
  LET frame == [owner |-> owner, load |-> load, op |-> op, multi |-> 0, done |-> FALSE, result |-> << >>,
                via |-> "fetch", down |-> ~W.backendUp,
                cold |-> /\ ~InvestmentCacheFresh(W)
                         /\ \A k \in 1..Len(ConfigSymbols) :
                              ~(ConfigSymbols[k] \in DOMAIN W.cache
                                 /\ W.now - W.cache[ConfigSymbols[k]].timestamp < CACHE_DURATION)]
  IN IF InvestmentCacheFresh(W)
     THEN [W EXCEPT !.gri = Put(@, g, [frame EXCEPT !.done = TRUE, !.via = "cache",
                                                    !.result = W.investmentCache[1]])]
     ELSE IF FreeIds(DOMAIN W.multi, MaxMulti) = {}
     THEN [W EXCEPT !.overflow = TRUE]
     ELSE LET m == FirstFree(DOMAIN W.multi, MaxMulti)
          IN getMultipleStockPrices([W EXCEPT !.gri = Put(@, g, [frame EXCEPT !.multi = m])],
                                    m, ConfigSymbols, "gri")

\* variant: a list without any live position is returned but not cached
getRealTimeInvestmentsResume_CacheLiveOnly(W, g) ==
  LET m == W.gri[g].multi
      investments == BuildInvestments(W.multi[m].results)
      W1 == IF W.multi[m].results = EmptyMap THEN W
            ELSE [W EXCEPT !.investmentCache = Some(investments),
                           !.lastInvestmentUpdate = W.now]
  IN [W1 EXCEPT !.multi = Del(@, m),
                !.gri[g] = [@ EXCEPT !.done = TRUE, !.result = investments, !.multi = 0]]

\* variant: the list that was built is returned but never stored
getRealTimeInvestmentsResume_NoStore(W, g) ==
  LET m == W.gri[g].multi
      investments == BuildInvestments(W.multi[m].results)
  IN [W EXCEPT !.multi = Del(@, m),
               !.gri[g] = [@ EXCEPT !.done = TRUE, !.result = investments, !.multi = 0]]

\* getRealTimeInvestments from the return of getMultipleStockPrices on
getRealTimeInvestmentsResume(W, g) ==
  LET m == W.gri[g].multi
      investments == BuildInvestments(W.multi[m].results)
  IN [W EXCEPT !.investmentCache = Some(investments),
               !.lastInvestmentUpdate = W.now,
               !.multi = Del(@, m),
               !.gri[g] = [@ EXCEPT !.done = TRUE, !.result = investments, !.multi = 0]]

\* refreshAllData up to its first await
refreshAllData(W, g, owner, load) ==
  getRealTimeInvestments(
    clearCache([W EXCEPT !.investmentCache = Null, !.lastInvestmentUpdate = 0]),
    g, owner, load, "refreshAllData")

\* ------------------------------------------------------------ DataContext
\* the useState initial values of DataProvider
InitialPortfolioData ==
  [data |-> << 6700, 7200, 6900, 7500, 7800, 8200 >>,
   labels |-> << "Jul", "Aug", "Sep", "Oct", "Nov", "Dec" >>]
InitialExchangeRateData ==
  [data |-> << 8320, 8350, 8310, 8330, 8360, 8340, 8370 >>,
   labels |-> << "Day 1", "Day 2", "Day 3", "Day 4", "Day 5", "Day 6", "Day 7" >>]
InitialMarketInsights ==
  << "Tech stocks showing mixed performance amid market volatility",
     "Federal Reserve policy decisions continue to impact market sentiment",
     "Energy sector gains momentum with rising commodity prices" >>
InitialState ==
  [investments |-> << >>, portfolioData |-> InitialPortfolioData,
   exchangeRateData |-> InitialExchangeRateData, marketInsights |-> InitialMarketInsights,
   isLoading |-> FALSE, isRealTimeEnabled |-> TRUE, lastUpdated |-> Null, error |-> Null]

\* what the handlers of a render close over
Closure(s) == [isLoading |-> s.isLoading, isRealTimeEnabled |-> s.isRealTimeEnabled]

\* Math.random() of the two generated series, one draw for a whole series
PortfolioVariations == { -250 }
RateVariations      == { 50 }

Clamp(lo, hi, x) == IF x < lo THEN lo ELSE IF x > hi THEN hi ELSE x

RECURSIVE SumSeq(_, _)
SumSeq(f, k) == IF k = 0 THEN 0 ELSE f[k] + SumSeq(f, k - 1)

\* getRealTimePortfolioData from the return of getRealTimeInvestments on
PortfolioSeries(investments, variation) ==
  LET totalCurrentValue  == SumSeq([k \in DOMAIN investments |-> investments[k].currentValue],
                                   Len(investments))
      totalPurchaseValue == SumSeq([k \in DOMAIN investments |-> investments[k].purchaseValue],
                                   Len(investments))
      currentPerformance == RoundDiv((totalCurrentValue - totalPurchaseValue * 100) * 100,
                                     totalPurchaseValue)
  IN [data |-> [i \in 1..6 |->
                  Clamp(5000, 15000, 10000 + RoundDiv(currentPerformance * i, 6) + variation)],
      labels |-> InitialPortfolioData.labels]

\* what chatbotApi.sendQuery resolves with for the exchange-rate question:
\* a text, of which the numbers it contains are listed in order
RateTexts == { [numbers |-> << 8375 >>], [numbers |-> << >>] }

\* variant: the generated series has a label for six days only
ExchangeSeries_SixLabels(outcome, variation) ==
  IF outcome.kind = "reject" THEN InitialExchangeRateData
  ELSE LET currentRate == IF outcome.text.numbers # << >> THEN outcome.text.numbers[1] ELSE 8350
       IN [data |-> [i \in 1..7 |-> currentRate + variation],
           labels |-> [i \in 1..6 |-> "Day " \o ToString(i)]]

\* getRealTimeExchangeRates from the return of sendQuery on; a rejection
\* gives the static series
ExchangeSeries(outcome, variation) ==
  IF outcome.kind = "reject" THEN InitialExchangeRateData
  ELSE LET currentRate == IF outcome.text.numbers # << >> THEN outcome.text.numbers[1] ELSE 8350
       IN [data |-> [i \in 1..7 |-> currentRate + variation],
           labels |-> [i \in 1..7 |-> "Day " \o ToString(i)]]

\* what chatbotApi.sendQuery resolves with for the insights question: the
\* lines of a text, each with its leading mark and the rest of the line
Line(mark, rest) == [mark |-> mark, rest |-> rest]
InsightTexts ==
  { << Line("none", "Here are the insights"), Line("bullet", "Markets steady"),
       Line("dash", ""), Line("dash", "Rates on hold"), Line("bullet", "Tech leads"),
       Line("bullet", "Oil higher") >>,
    << Line("none", "No insights today") >> }

getFallbackInsights ==
  << "Tech stocks showing mixed performance amid market volatility",
     "Federal Reserve policy decisions continue to impact market sentiment",
     "Energy sector gains momentum with rising commodity prices" >>

IsBulletLine(line) == line.mark \in {"bullet", "dash"}
IsNonEmptyLine(line) == line.rest # ""

\* variant: a text without bullet lines gives an empty list
Insights_EmptyWithoutBullets(outcome) ==
  IF outcome.kind = "reject" THEN getFallbackInsights
  ELSE LET bullets  == SelectSeq(SelectSeq(outcome.text, IsBulletLine), IsNonEmptyLine)
       IN [k \in 1..Min(3, Len(bullets)) |-> bullets[k].rest]

\* getMarketInsights from the return of sendQuery on
Insights(outcome) ==
  IF outcome.kind = "reject" THEN getFallbackInsights
  ELSE LET bullets  == SelectSeq(SelectSeq(outcome.text, IsBulletLine), IsNonEmptyLine)
           insights == [k \in 1..Min(3, Len(bullets)) |-> bullets[k].rest]
       IN IF Len(insights) > 0 THEN insights ELSE getFallbackInsights

\* an execution of loadInitialData or refreshData
NoParts == [inv |-> Null, port |-> Null, exch |-> Null, ins |-> Null]
NewLoad(kind, closure) ==
  [kind |-> kind, pc |-> "start", isRealTimeEnabled |-> closure.isRealTimeEnabled,
   waiting |-> {}, avail |-> [pc |-> "none", backend |-> FALSE, val |-> FALSE],
   isAvailable |-> FALSE, parts |-> NoParts]

\* variant: the execution ends without resetting isLoading
EndLoad_KeepLoading(W, l) ==
  [W EXCEPT !.loads = IF W.loads[l].avail.pc \in {"chat", "stock"}
                      THEN [@ EXCEPT ![l].pc = "end"]
                      ELSE Del(@, l)]

\* finally { setIsLoading(false) }; the frame of loadInitialData stays for
\* as long as the isRealTimeDataAvailable it started is still running
EndLoad(W, l) ==
  [W EXCEPT !.st.isLoading = FALSE,
            !.loads = IF W.loads[l].avail.pc \in {"chat", "stock"}
                      THEN [@ EXCEPT ![l].pc = "end"]
                      ELSE Del(@, l)]

\* loadRealTimeData up to Promise.all: the four provider calls are started
\* in order, getRealTimePortfolioData running up to its own
\* getRealTimeInvestments call
loadRealTimeData(W, l) ==
  IF Cardinality(FreeIds(DOMAIN W.gri, MaxGri)) < 2
  THEN [W EXCEPT !.overflow = TRUE]
  ELSE LET gA == FirstFree(DOMAIN W.gri, MaxGri)
           W1 == getRealTimeInvestments(W, gA, "inv", l, "getRealTimeInvestments")
           gB == FirstFree((DOMAIN W.gri) \cup {gA}, MaxGri)
           W2 == getRealTimeInvestments(W1, gB, "port", l, "getRealTimeInvestments")
       IN [W2 EXCEPT !.loads[l] = [@ EXCEPT !.pc = "loadRT", !.parts = NoParts,
                                            !.waiting = @ \cup {"exchange", "insights"}]]

\* loadRealTimeData from Promise.all on, then the rest of its caller
loadRealTimeDataResume(W, l) ==
  LET parts == W.loads[l].parts
  IN EndLoad([W EXCEPT !.st = [@ EXCEPT !.investments = parts.inv[1],
                                        !.portfolioData = parts.port[1],
                                        !.exchangeRateData = parts.exch[1],
                                        !.marketInsights = parts.ins[1],
                                        !.lastUpdated = Some(W.now),
                                        !.error = Null]], l)

\* variant: the fallback load leaves the investments as they are
loadFallbackDataResume_KeepInvestments(W, l) ==
  LET frame == W.loads[l]
      W1 == [W EXCEPT !.st.lastUpdated = Some(W.now)]
      W2 == IF frame.pc = "fallbackElse" /\ ~frame.isAvailable
            THEN [W1 EXCEPT !.st.error = Some("Real-time data unavailable. Using offline data.")]
            ELSE W1
  IN EndLoad(W2, l)

\* variant: the fallback load also empties the price cache
loadFallbackDataResume_ClearCache(W, l) ==
  LET frame == W.loads[l]
      W1 == [clearCache(W) EXCEPT !.st = [@ EXCEPT !.investments = getFallbackInvestments,
                                                   !.lastUpdated = Some(W.now)]]
      W2 == IF frame.pc = "fallbackElse" /\ ~frame.isAvailable
            THEN [W1 EXCEPT !.st.error = Some("Real-time data unavailable. Using offline data.")]
            ELSE W1
  IN EndLoad(W2, l)

\* loadFallbackData from its await on, then the rest of loadInitialData
loadFallbackDataResume(W, l) ==
  LET frame == W.loads[l]
      W1 == [W EXCEPT !.st = [@ EXCEPT !.investments = getFallbackInvestments,
                                       !.lastUpdated = Some(W.now)]]
      W2 == IF frame.pc = "fallbackElse" /\ ~frame.isAvailable
            THEN [W1 EXCEPT !.st.error = Some("Real-time data unavailable. Using offline data.")]
            ELSE W1
  IN EndLoad(W2, l)

\* loadInitialData up to Promise.race; isRealTimeDataAvailable runs up to its
\* await of chatbotApi.testConnection
loadInitialData(W, closure) ==
  IF FreeIds(DOMAIN W.loads, MaxLoads) = {}
  THEN [W EXCEPT !.overflow = TRUE]
  ELSE LET l == FirstFree(DOMAIN W.loads, MaxLoads)
       IN [W EXCEPT !.st = [@ EXCEPT !.isLoading = TRUE, !.error = Null],
                    !.loads = Put(@, l, [NewLoad("initial", closure) EXCEPT
                                           !.pc = "race", !.waiting = {"chatTest"},
                                           !.avail.pc = "chat"])]

\* loadInitialData from Promise.race on, when isRealTimeDataAvailable won
loadInitialDataResume(W, l) ==
  LET frame == W.loads[l]
      isAvailable == frame.avail.val
  IN IF isAvailable /\ frame.isRealTimeEnabled
     THEN loadRealTimeData([W EXCEPT !.loads[l].isAvailable = isAvailable], l)
     ELSE [W EXCEPT !.loads[l] = [@ EXCEPT !.isAvailable = isAvailable, !.pc = "fallbackElse"]]

\* variant: the catch block sets no error
loadInitialDataTimeout_NoError(W, l) ==
  [W EXCEPT !.loads[l].pc = "fallbackCatch"]

\* loadInitialData when the 10 s timer won the race: the catch block up to
\* the await of loadFallbackData
loadInitialDataTimeout(W, l) ==
  [W EXCEPT !.st.error = Some("Connection failed. Using offline data."),
            !.loads[l].pc = "fallbackCatch"]

\* isRealTimeDataAvailable from the return of chatbotApi.testConnection to
\* its await of stockDataService.testConnection, which is getStockPrice('AAPL')
isRealTimeDataAvailableChat(W, l, outcome) ==
  LET W0 == [W EXCEPT !.loads[l].waiting = @ \ {"chatTest"}]
  IN IF outcome.kind = "reject"
     THEN [W0 EXCEPT !.loads[l].avail = [pc |-> "done", backend |-> FALSE, val |-> FALSE]]
     ELSE IF FreeIds(DOMAIN W.direct, MaxDirect) = {}
     THEN [W EXCEPT !.overflow = TRUE]
     ELSE LET d   == FirstFree(DOMAIN W.direct, MaxDirect)
              res == getStockPrice(W0, "AAPL", 0)
          IN [res.W EXCEPT !.direct = Put(@, d, res.call @@ [owner |-> "avail"]),
                           !.loads[l].avail = [pc |-> "stock", backend |-> outcome.value,
                                               val |-> FALSE]]

\* isRealTimeDataAvailable from the return of stockDataService.testConnection
isRealTimeDataAvailableStock(W, l, d) ==
  LET frame == W.loads[l]
      isStockDataAvailable == W.direct[d].val # Null
      avail == [pc |-> "done", backend |-> frame.avail.backend,
                val |-> frame.avail.backend /\ isStockDataAvailable]
  IN [W EXCEPT !.direct = Del(@, d),
               !.loads = IF frame.pc = "end" THEN Del(@, l)
                         ELSE [@ EXCEPT ![l].avail = avail]]

\* refreshData up to its first await
refreshData(W, closure) ==
  LET W0 == [W EXCEPT !.refreshCalls = @ + 1]
  IN IF closure.isLoading THEN W0
     ELSE LET W1 == [W0 EXCEPT !.st = [@ EXCEPT !.isLoading = TRUE, !.error = Null]]
          IN IF ~closure.isRealTimeEnabled
             THEN [W1 EXCEPT !.st.isLoading = FALSE]
             ELSE IF FreeIds(DOMAIN W.loads, MaxLoads) = {}
             THEN [W EXCEPT !.overflow = TRUE]
             ELSE [W1 EXCEPT !.loads = Put(@, FirstFree(DOMAIN W.loads, MaxLoads),
                                           [NewLoad("refresh", closure) EXCEPT
                                              !.pc = "probe", !.waiting = {"health"}])]

\* variant: the probe result is not acted on when it fails
refreshDataProbed_KeepEnabled(W, l, isAvailable) ==
  LET W0 == [W EXCEPT !.loads[l].waiting = @ \ {"health"}]
  IN IF isAvailable
     THEN IF FreeIds(DOMAIN W.gri, MaxGri) = {}
          THEN [W EXCEPT !.overflow = TRUE]
          ELSE refreshAllData([W0 EXCEPT !.loads[l].pc = "refreshAll"],
                              FirstFree(DOMAIN W.gri, MaxGri), "refreshAll", l)
     ELSE EndLoad([W0 EXCEPT !.st.error = Some("Backend unavailable. Using cached data.")], l)

\* refreshData from the return of testApiConnection to its next await
refreshDataProbed(W, l, isAvailable) ==
  LET W0 == [W EXCEPT !.loads[l].waiting = @ \ {"health"}]
  IN IF isAvailable
     THEN IF FreeIds(DOMAIN W.gri, MaxGri) = {}
          THEN [W EXCEPT !.overflow = TRUE]
          ELSE refreshAllData([W0 EXCEPT !.loads[l].pc = "refreshAll"],
                              FirstFree(DOMAIN W.gri, MaxGri), "refreshAll", l)
     ELSE EndLoad([W0 EXCEPT !.st = [@ EXCEPT
                                       !.error = Some("Backend unavailable. Using cached data."),
                                       !.isRealTimeEnabled = FALSE]], l)

\* variant: the refresh is made with the value that was just set
toggleRealTime_FreshValue(W, closure) ==
  LET W1 == [W EXCEPT !.st = [@ EXCEPT !.isRealTimeEnabled = ~closure.isRealTimeEnabled,
                                       !.error = Null]]
  IN refreshData(W1, closure)

\* toggleRealTime
toggleRealTime(W, closure) ==
  LET W1 == [W EXCEPT !.st = [@ EXCEPT !.isRealTimeEnabled = ~closure.isRealTimeEnabled,
                                       !.error = Null]]
  IN IF ~closure.isRealTimeEnabled THEN refreshData(W1, closure) ELSE W1

\* variant: dismissing the error also starts a refresh
clearError_AndRefresh(W) == refreshData([W EXCEPT !.st.error = Null], Closure(W.st))

\* clearError
clearError(W) == [W EXCEPT !.st.error = Null]

\* the auto-refresh effect: the interval callback it arms, if any
AutoRefreshEffect(closure) == IF ~closure.isRealTimeEnabled THEN Null ELSE Some(closure)

\* ------------------------------------------------------------ retryRequest
\* API_CONFIG.RETRY
RETRY_MAX_ATTEMPTS == 3
RETRY_DELAY        == 1000

\* what requestFn settles with
RetryValues == { "payload" }
RetryErrors == { "timeout", "network" }
RequestFnOutcomes ==
  { [kind |-> "resolve", value |-> v] : v \in RetryValues }
    \cup { [kind |-> "reject", value |-> e] : e \in RetryErrors }

\* no call of retryRequest is in progress
NoRetry ==
  [phase |-> "idle", maxAttempts |-> 0, attempt |-> 0, invoked |-> 0, timer |-> 0,
   waits |-> << >>, outcomes |-> << >>, lastError |-> Null, settled |-> Null]

\* one pass of the loop up to the await of requestFn()
retryRequestAttempt(R, attempt) ==
  IF attempt <= R.maxAttempts
  THEN [R EXCEPT !.phase = "calling", !.attempt = attempt, !.invoked = @ + 1, !.timer = 0]
  ELSE [R EXCEPT !.phase = "settled", !.attempt = attempt, !.timer = 0,
                 !.settled = Some([kind |-> "reject",
                                   value |-> IF R.lastError = Null THEN "undefined"
                                             ELSE R.lastError[1]])]

\* retryRequest up to its first await
retryRequest(maxAttempts) ==
  retryRequestAttempt([NoRetry EXCEPT !.maxAttempts = maxAttempts], 1)

\* variant: the same delay after every failed attempt, the last included
retryRequestSettle_FixedDelay(R, outcome) ==
  LET R1 == [R EXCEPT !.outcomes = Append(@, outcome)]
  IN IF outcome.kind = "resolve"
     THEN [R1 EXCEPT !.phase = "settled", !.settled = Some(outcome)]
     ELSE [R1 EXCEPT !.lastError = Some(outcome.value), !.phase = "waiting",
                     !.timer = RETRY_DELAY, !.waits = Append(@, RETRY_DELAY)]

\* retryRequest from the settlement of requestFn() to its next await or
\* to its end
retryRequestSettle(R, outcome) ==
  LET R1 == [R EXCEPT !.outcomes = Append(@, outcome)]
  IN IF outcome.kind = "resolve"
     THEN [R1 EXCEPT !.phase = "settled", !.settled = Some(outcome)]
     ELSE LET R2 == [R1 EXCEPT !.lastError = Some(outcome.value)]
          IN IF R.attempt < R.maxAttempts
             THEN [R2 EXCEPT !.phase = "waiting", !.timer = RETRY_DELAY * R.attempt,
                             !.waits = Append(@, RETRY_DELAY * R.attempt)]
             ELSE retryRequestAttempt(R2, R.attempt + 1)

\* ------------------------------------------------------------- scheduling
LoadRealTimeReady(frame) ==
  /\ frame.pc = "loadRT"
  /\ \A part \in DOMAIN frame.parts : frame.parts[part] # Null
BatchSettled(inv) == inv.phase = "batch" /\ \A k \in DOMAIN inv.slots : inv.slots[k].done
MicroPending ==
  \/ \E m \in DOMAIN multi : BatchSettled(multi[m]) \/ multi[m].phase = "done"
  \/ \E d \in DOMAIN direct : direct[d].done
  \/ \E g \in DOMAIN gri : gri[g].done
  \/ \E l \in DOMAIN loads :
       \/ LoadRealTimeReady(loads[l])
       \/ loads[l].pc \in {"fallbackElse", "fallbackCatch"}
       \/ loads[l].pc = "race" /\ loads[l].avail.pc = "done"

Commit(W) ==
  /\ ~W.overflow
  /\ LET C == Collect(W)
     IN /\ cache' = C.cache
        /\ pendingRequests' = C.pendingRequests
        /\ reqs' = C.reqs
        /\ multi' = C.multi
        /\ direct' = C.direct
        /\ investmentCache' = C.investmentCache
        /\ lastInvestmentUpdate' = C.lastInvestmentUpdate
        /\ gri' = C.gri
        /\ st' = C.st
        /\ loads' = C.loads
        /\ refreshCalls' = C.refreshCalls

\* --------------------------------------------------------------- actions
Init ==
  /\ now = 0
  /\ backendUp \in BOOLEAN
  /\ cache = EmptyMap
  /\ pendingRequests = EmptyMap
  /\ reqs = EmptyMap
  /\ multi = EmptyMap
  /\ direct = EmptyMap
  /\ investmentCache = Null
  /\ lastInvestmentUpdate = 0
  /\ gri = EmptyMap
  /\ st = InitialState
  /\ loads = EmptyMap
  /\ refreshCalls = 0
  /\ view = Closure(InitialState)
  /\ mounted = FALSE
  /\ interval = Null
  /\ retry = NoRetry
  /\ callsMade = 0
  /\ envSteps = 0

\* a caller of the exported service asks for one price
CallGetStockPrice(symbol) ==
  /\ ~MicroPending
  /\ FreeIds(DOMAIN direct, MaxDirect) # {}
  /\ callsMade < MaxCalls
  /\ callsMade' = callsMade + 1
  /\ LET d   == FirstFree(DOMAIN direct, MaxDirect)
         res == getStockPrice(Cur, symbol, 0)
     IN Commit([res.W EXCEPT !.direct = Put(@, d, res.call @@ [owner |-> "ext"])])
  /\ UNCHANGED << retry, now, backendUp, uiVars, envSteps >>

\* a caller of the exported service asks for a list of prices
CallGetMultipleStockPrices(symbols) ==
  /\ ~MicroPending
  /\ FreeIds(DOMAIN multi, MaxMulti) # {}
  /\ callsMade < MaxCalls
  /\ callsMade' = callsMade + 1
  /\ LET m == FirstFree(DOMAIN multi, MaxMulti)
     IN Commit(getMultipleStockPrices(Cur, m, symbols, "ext"))
  /\ UNCHANGED << retry, now, backendUp, uiVars, envSteps >>

\* the network request of fetchStockData settles
FetchSettle(r, response) ==
  /\ ~MicroPending
  /\ r \in DOMAIN reqs /\ ~reqs[r].settled
  /\ response.kind = "neterr" \/ backendUp
  /\ Commit(fetchStockDataSettle(Cur, r, response))
  /\ UNCHANGED << retry, now, backendUp, uiVars, callsMade, envSteps >>

\* variant: a delay after the last full batch as well
MoreBatches_Inclusive(inv) == inv.i + batchSize <= Len(inv.symbols)

\* if (i + batchSize < symbols.length)
MoreBatches(inv) == inv.i + batchSize < Len(inv.symbols)

\* variant: a null result ends the loop and empties the map
MultiBatchDone_StopOnFailure(m) ==
  /\ m \in DOMAIN multi /\ BatchSettled(multi[m])
  /\ LET inv  == multi[m]
         got  == { k \in DOMAIN inv.slots : inv.slots[k].val # Null }
         res  == [s \in (DOMAIN inv.results) \cup { inv.slots[k].sym : k \in got } |->
                    IF \E k \in got : inv.slots[k].sym = s
                    THEN inv.slots[CHOOSE k \in got : inv.slots[k].sym = s
                                      /\ \A j \in got : inv.slots[j].sym = s => j <= k].val[1]
                    ELSE inv.results[s]]
         failed == got # DOMAIN inv.slots
         more == MoreBatches(inv) /\ ~failed
     IN Commit([Cur EXCEPT !.multi[m] =
                  [inv EXCEPT !.results = IF failed THEN EmptyMap ELSE res, !.slots = << >>,
                              !.phase = IF more THEN "delay" ELSE "done",
                              !.timer = IF more THEN BATCH_DELAY ELSE 0,
                              !.delays = IF more THEN @ + 1 ELSE @]])
  /\ UNCHANGED << retry, now, backendUp, uiVars, callsMade, envSteps >>

\* Promise.all of a batch has resolved: collect the non-null results, then
\* either arm the inter-batch timer or leave the loop
MultiBatchDone(m) ==
  /\ m \in DOMAIN multi /\ BatchSettled(multi[m])
  /\ LET inv  == multi[m]
         got  == { k \in DOMAIN inv.slots : inv.slots[k].val # Null }
         res  == [s \in (DOMAIN inv.results) \cup { inv.slots[k].sym : k \in got } |->
                    IF \E k \in got : inv.slots[k].sym = s
                    THEN inv.slots[CHOOSE k \in got : inv.slots[k].sym = s
                                      /\ \A j \in got : inv.slots[j].sym = s => j <= k].val[1]
                    ELSE inv.results[s]]
         more == MoreBatches(inv)
     IN Commit([Cur EXCEPT !.multi[m] =
                  [inv EXCEPT !.results = res, !.slots = << >>,
                              !.phase = IF more THEN "delay" ELSE "done",
                              !.timer = IF more THEN BATCH_DELAY ELSE 0,
                              !.delays = IF more THEN @ + 1 ELSE @]])
  /\ UNCHANGED << retry, now, backendUp, uiVars, callsMade, envSteps >>

\* setTimeout(resolve, 500) fires: next iteration of the loop
MultiDelayFire(m) ==
  /\ ~MicroPending
  /\ m \in DOMAIN multi /\ multi[m].phase = "delay"
  /\ Commit(StartBatch([Cur EXCEPT !.multi[m].i = @ + batchSize], m))
  /\ UNCHANGED << retry, now, backendUp, uiVars, callsMade, envSteps >>

\* the caller of the service receives the map
MultiReturn(m) ==
  /\ m \in DOMAIN multi /\ multi[m].phase = "done" /\ multi[m].owner = "ext"
  /\ Commit([Cur EXCEPT !.multi = Del(@, m)])
  /\ UNCHANGED << retry, now, backendUp, uiVars, callsMade, envSteps >>

\* the caller of the service receives the price
DirectReturn(d) ==
  /\ d \in DOMAIN direct /\ direct[d].done /\ direct[d].owner = "ext"
  /\ Commit([Cur EXCEPT !.direct = Del(@, d)])
  /\ UNCHANGED << retry, now, backendUp, uiVars, callsMade, envSteps >>

ClearCache ==
  /\ ~MicroPending
  /\ cache # EmptyMap
  /\ Commit(clearCache(Cur))
  /\ UNCHANGED << retry, now, backendUp, uiVars, callsMade, envSteps >>

Tick(dt) ==
  /\ ~MicroPending
  /\ envSteps < MaxEnv
  /\ envSteps' = envSteps + 1
  /\ now' = now + dt
  /\ UNCHANGED << retry, backendUp, svcVars, provVars, appVars, uiVars, callsMade >>

\* the backend goes down or comes back; a call in progress then no longer
\* counts as made against a backend that was down throughout
BackendFlip ==
  /\ ~MicroPending
  /\ envSteps < MaxEnv
  /\ envSteps' = envSteps + 1
  /\ backendUp' = ~backendUp
  /\ gri' = [g \in DOMAIN gri |-> [gri[g] EXCEPT !.down = @ /\ backendUp]]
  /\ UNCHANGED << retry, now, svcVars, investmentCache, lastInvestmentUpdate, appVars, uiVars, callsMade >>

\* the backend goes down and stays down
BackendDrop ==
  /\ backendUp
  /\ BackendFlip

\* a caller of the exported provider asks for the investments; it awaits
\* each call before it makes the next
CallGetRealTimeInvestments ==
  /\ ~MicroPending
  /\ FreeIds(DOMAIN gri, MaxGri) # {}
  /\ \A g \in DOMAIN gri : gri[g].owner # "ext"
  /\ callsMade < MaxCalls
  /\ callsMade' = callsMade + 1
  /\ Commit(getRealTimeInvestments(Cur, FirstFree(DOMAIN gri, MaxGri), "ext", 0,
                                    "getRealTimeInvestments"))
  /\ UNCHANGED << retry, now, backendUp, uiVars, envSteps >>

\* a caller of the exported provider forces a refresh
CallRefreshAllData ==
  /\ ~MicroPending
  /\ FreeIds(DOMAIN gri, MaxGri) # {}
  /\ \A g \in DOMAIN gri : gri[g].owner # "ext"
  /\ callsMade < MaxCalls
  /\ callsMade' = callsMade + 1
  /\ Commit(refreshAllData(Cur, FirstFree(DOMAIN gri, MaxGri), "ext", 0))
  /\ UNCHANGED << retry, now, backendUp, uiVars, envSteps >>

\* getMultipleStockPrices has returned to getRealTimeInvestments
GriResume(g) ==
  /\ g \in DOMAIN gri /\ ~gri[g].done
  /\ gri[g].multi \in DOMAIN multi /\ multi[gri[g].multi].phase = "done"
  /\ Commit(getRealTimeInvestmentsResume(Cur, g))
  /\ UNCHANGED << retry, now, backendUp, uiVars, callsMade, envSteps >>

\* the caller of the provider receives the list
GriReturn(g) ==
  /\ g \in DOMAIN gri /\ gri[g].done /\ gri[g].owner = "ext"
  /\ Commit([Cur EXCEPT !.gri = Del(@, g)])
  /\ UNCHANGED << retry, now, backendUp, uiVars, callsMade, envSteps >>

\* ---- DataContext: renders, events, timers and continuations
\* React commits a render and runs its effects: on the first commit the
\* mount effect calls loadInitialData and the auto-refresh effect arms the
\* interval; on a later commit the auto-refresh effect is cleaned up and run
\* again when isRealTimeEnabled or isLoading changed
Render ==
  /\ ~MicroPending
  /\ LET closure == Closure(st)
     IN IF ~mounted
        THEN /\ mounted' = TRUE
             /\ view' = closure
             /\ interval' = AutoRefreshEffect(closure)
             /\ Commit(loadInitialData(Cur, closure))
        ELSE /\ view # closure
             /\ mounted' = mounted
             /\ view' = closure
             /\ interval' = AutoRefreshEffect(closure)
             /\ Commit(Cur)
  /\ UNCHANGED << retry, now, backendUp, callsMade, envSteps >>

\* a consumer of the context calls refreshData (a refresh button is pressed)
UserRefresh ==
  /\ ~MicroPending
  /\ mounted
  /\ callsMade < MaxCalls
  /\ callsMade' = callsMade + 1
  /\ Commit(refreshData(Cur, view))
  /\ UNCHANGED << retry, now, backendUp, uiVars, envSteps >>

\* the toggle button is pressed
UserToggle ==
  /\ ~MicroPending
  /\ mounted
  /\ callsMade < MaxCalls
  /\ callsMade' = callsMade + 1
  /\ Commit(toggleRealTime(Cur, view))
  /\ UNCHANGED << retry, now, backendUp, uiVars, envSteps >>

\* the error banner is dismissed
UserClearError ==
  /\ ~MicroPending
  /\ mounted
  /\ st.error # Null
  /\ callsMade < MaxCalls
  /\ callsMade' = callsMade + 1
  /\ Commit(clearError(Cur))
  /\ UNCHANGED << retry, now, backendUp, uiVars, envSteps >>

\* the interval of the auto-refresh effect fires
IntervalTick ==
  /\ ~MicroPending
  /\ interval # Null
  /\ callsMade < MaxCalls
  /\ callsMade' = callsMade + 1
  /\ IF ~interval[1].isLoading THEN Commit(refreshData(Cur, interval[1])) ELSE Commit(Cur)
  /\ UNCHANGED << retry, now, backendUp, uiVars, envSteps >>

\* the 10 s timer of loadInitialData fires before isRealTimeDataAvailable returns
InitialTimeout(l) ==
  /\ ~MicroPending
  /\ l \in DOMAIN loads /\ loads[l].kind = "initial" /\ loads[l].pc = "race"
  /\ Commit(loadInitialDataTimeout(Cur, l))
  /\ UNCHANGED << retry, now, backendUp, uiVars, callsMade, envSteps >>

\* what chatbotApi.testConnection settles with
ChatTestOutcomes ==
  IF backendUp THEN { [kind |-> "resolve", value |-> TRUE], [kind |-> "resolve", value |-> FALSE] }
  ELSE { [kind |-> "resolve", value |-> FALSE], [kind |-> "reject", value |-> FALSE] }

ChatTestSettle(l, outcome) ==
  /\ ~MicroPending
  /\ l \in DOMAIN loads /\ "chatTest" \in loads[l].waiting
  /\ Commit(isRealTimeDataAvailableChat(Cur, l, outcome))
  /\ UNCHANGED << retry, now, backendUp, uiVars, callsMade, envSteps >>

\* getStockPrice('AAPL') has returned to stockDataService.testConnection
AvailStockDone(d) ==
  /\ d \in DOMAIN direct /\ direct[d].done /\ direct[d].owner = "avail"
  /\ \E l \in DOMAIN loads :
       /\ loads[l].avail.pc = "stock"
       /\ Commit(isRealTimeDataAvailableStock(Cur, l, d))
  /\ UNCHANGED << retry, now, backendUp, uiVars, callsMade, envSteps >>

\* Promise.race of loadInitialData resolves with isRealTimeDataAvailable
InitialRaceDone(l) ==
  /\ l \in DOMAIN loads /\ loads[l].pc = "race" /\ loads[l].avail.pc = "done"
  /\ Commit(loadInitialDataResume(Cur, l))
  /\ UNCHANGED << retry, now, backendUp, uiVars, callsMade, envSteps >>

\* the await of loadFallbackData in loadInitialData resumes
FallbackDone(l) ==
  /\ l \in DOMAIN loads /\ loads[l].pc \in {"fallbackElse", "fallbackCatch"}
  /\ Commit(loadFallbackDataResume(Cur, l))
  /\ UNCHANGED << retry, now, backendUp, uiVars, callsMade, envSteps >>

\* what fetch() of the health endpoint gives testApiConnection: response.ok,
\* another status, or an error (the abort of the connection timeout included)
HealthOutcomes == IF backendUp THEN {"ok", "status"} ELSE {"error"}

\* testApiConnection returns to refreshData
HealthSettle(l, outcome) ==
  /\ ~MicroPending
  /\ l \in DOMAIN loads /\ "health" \in loads[l].waiting
  /\ Commit(refreshDataProbed(Cur, l, outcome = "ok"))
  /\ UNCHANGED << retry, now, backendUp, uiVars, callsMade, envSteps >>

\* variant: the investments are set as soon as their call returns
GriToLoad_EarlyWrite(g, variation) ==
  /\ g \in DOMAIN gri /\ gri[g].done /\ gri[g].owner # "ext"
  /\ LET l  == gri[g].load
         W0 == [Cur EXCEPT !.gri = Del(@, g)]
     IN CASE gri[g].owner = "refreshAll" -> Commit(loadRealTimeData(W0, l))
          [] gri[g].owner = "inv" ->
               Commit([W0 EXCEPT !.loads[l].parts.inv = Some(gri[g].result),
                                 !.st.investments = gri[g].result])
          [] gri[g].owner = "port" ->
               Commit([W0 EXCEPT !.loads[l].parts.port =
                                   Some(PortfolioSeries(gri[g].result, variation))])
  /\ UNCHANGED << retry, now, backendUp, uiVars, callsMade, envSteps >>

\* a getRealTimeInvestments call made for a load has returned: to
\* refreshData after refreshAllData, to Promise.all of loadRealTimeData, or
\* to getRealTimePortfolioData, which returns its series to Promise.all
GriToLoad(g, variation) ==
  /\ g \in DOMAIN gri /\ gri[g].done /\ gri[g].owner # "ext"
  /\ LET l  == gri[g].load
         W0 == [Cur EXCEPT !.gri = Del(@, g)]
     IN CASE gri[g].owner = "refreshAll" -> Commit(loadRealTimeData(W0, l))
          [] gri[g].owner = "inv" ->
               Commit([W0 EXCEPT !.loads[l].parts.inv = Some(gri[g].result)])
          [] gri[g].owner = "port" ->
               Commit([W0 EXCEPT !.loads[l].parts.port =
                                   Some(PortfolioSeries(gri[g].result, variation))])
  /\ UNCHANGED << retry, now, backendUp, uiVars, callsMade, envSteps >>

\* what chatbotApi.sendQuery settles with
RateOutcomes ==
  IF backendUp THEN { [kind |-> "resolve", text |-> t] : t \in RateTexts }
  ELSE { [kind |-> "reject", text |-> [numbers |-> << >>]] }
InsightOutcomes ==
  IF backendUp THEN { [kind |-> "resolve", text |-> t] : t \in InsightTexts }
  ELSE { [kind |-> "reject", text |-> << >>] }

\* sendQuery returns to getRealTimeExchangeRates, which returns its series
ExchangeSettle(l, outcome, variation) ==
  /\ ~MicroPending
  /\ l \in DOMAIN loads /\ "exchange" \in loads[l].waiting
  /\ Commit([Cur EXCEPT !.loads[l] = [@ EXCEPT !.waiting = @ \ {"exchange"},
                                                !.parts.exch = Some(ExchangeSeries(outcome, variation))]])
  /\ UNCHANGED << retry, now, backendUp, uiVars, callsMade, envSteps >>

\* sendQuery returns to getMarketInsights, which returns its list
InsightsSettle(l, outcome) ==
  /\ ~MicroPending
  /\ l \in DOMAIN loads /\ "insights" \in loads[l].waiting
  /\ Commit([Cur EXCEPT !.loads[l] = [@ EXCEPT !.waiting = @ \ {"insights"},
                                                !.parts.ins = Some(Insights(outcome))]])
  /\ UNCHANGED << retry, now, backendUp, uiVars, callsMade, envSteps >>

\* Promise.all of loadRealTimeData has resolved
LoadRealTimeDone(l) ==
  /\ l \in DOMAIN loads /\ LoadRealTimeReady(loads[l])
  /\ Commit(loadRealTimeDataResume(Cur, l))
  /\ UNCHANGED << retry, now, backendUp, uiVars, callsMade, envSteps >>

\* ---- retryRequest: a caller, requestFn and the timer
\* a caller invokes retryRequest and awaits it
CallRetryRequest(maxAttempts) ==
  /\ retry.phase = "idle"
  /\ callsMade < MaxCalls
  /\ callsMade' = callsMade + 1
  /\ retry' = retryRequest(maxAttempts)
  /\ UNCHANGED << now, backendUp, svcVars, provVars, appVars, uiVars, envSteps >>

\* requestFn() settles
RequestFnSettle(outcome) ==
  /\ retry.phase = "calling"
  /\ retry' = retryRequestSettle(retry, outcome)
  /\ UNCHANGED << now, backendUp, svcVars, provVars, appVars, uiVars, callsMade, envSteps >>

\* the timer of the wait between two attempts fires
RetryDelayFire ==
  /\ retry.phase = "waiting"
  /\ retry' = retryRequestAttempt(retry, retry.attempt + 1)
  /\ UNCHANGED << now, backendUp, svcVars, provVars, appVars, uiVars, callsMade, envSteps >>

\* the caller receives the result or the error
RetryReturn ==
  /\ retry.phase = "settled"
  /\ retry' = NoRetry
  /\ UNCHANGED << now, backendUp, svcVars, provVars, appVars, uiVars, callsMade, envSteps >>

\* what a request settles with when the answer depends on the backend only
BackendResponses ==
  IF backendUp THEN { LiveAnswer }
  ELSE { Resp("neterr", Null, Null, Null, Null) }

\* the stock service with callers that ask for single prices, under a
\* running clock and cache invalidation
NextSvc ==
  \/ \E s \in SvcSymbols : CallGetStockPrice(s)
  \/ \E r \in ReqIds, resp \in StockResponses : FetchSettle(r, resp)
  \/ \E d \in 1..MaxDirect : DirectReturn(d)
  \/ ClearCache
  \/ \E dt \in ClockSteps : Tick(dt)

SpecSvc == Init /\ [][NextSvc]_vars

\* the stock service with callers that ask for lists of prices and for
\* single prices
NextBatch ==
  \/ \E s \in SvcSymbols : CallGetStockPrice(s)
  \/ \E l \in SymbolLists : CallGetMultipleStockPrices(l)
  \/ \E r \in ReqIds, resp \in BatchResponses : FetchSettle(r, resp)
  \/ \E m \in 1..MaxMulti : MultiBatchDone(m)
  \/ \E m \in 1..MaxMulti : MultiDelayFire(m)
  \/ \E m \in 1..MaxMulti : MultiReturn(m)
  \/ \E d \in 1..MaxDirect : DirectReturn(d)

SpecBatch == Init /\ [][NextBatch]_vars

\* the provider with callers that ask for the investments, against a
\* backend that goes down and comes back, under a running clock
NextProv ==
  \/ CallGetRealTimeInvestments
  \/ CallRefreshAllData
  \/ \E r \in ReqIds, resp \in BackendResponses : FetchSettle(r, resp)
  \/ \E m \in 1..MaxMulti : MultiBatchDone(m)
  \/ \E m \in 1..MaxMulti : MultiDelayFire(m)
  \/ \E g \in 1..MaxGri : GriResume(g)
  \/ \E g \in 1..MaxGri : GriReturn(g)
  \/ \E dt \in ClockSteps : Tick(dt)
  \/ BackendFlip

SpecProv == Init /\ [][NextProv]_vars

\* the application: the mounted DataProvider with its user, its timers and
\* the backend behind it
Next ==
  \/ Render
  \/ UserRefresh
  \/ UserToggle
  \/ UserClearError
  \/ IntervalTick
  \/ \E l \in 1..MaxLoads : InitialTimeout(l)
  \/ \E l \in 1..MaxLoads, outcome \in ChatTestOutcomes : ChatTestSettle(l, outcome)
  \/ \E d \in 1..MaxDirect : AvailStockDone(d)
  \/ \E l \in 1..MaxLoads : InitialRaceDone(l)
  \/ \E l \in 1..MaxLoads : FallbackDone(l)
  \/ \E l \in 1..MaxLoads, outcome \in HealthOutcomes : HealthSettle(l, outcome)
  \/ \E g \in 1..MaxGri, variation \in PortfolioVariations : GriToLoad(g, variation)
  \/ \E l \in 1..MaxLoads, outcome \in RateOutcomes, variation \in RateVariations :
       ExchangeSettle(l, outcome, variation)
  \/ \E l \in 1..MaxLoads, outcome \in InsightOutcomes : InsightsSettle(l, outcome)
  \/ \E l \in 1..MaxLoads : LoadRealTimeDone(l)
  \/ \E r \in ReqIds, resp \in BackendResponses : FetchSettle(r, resp)
  \/ \E m \in 1..MaxMulti : MultiBatchDone(m)
  \/ \E m \in 1..MaxMulti : MultiDelayFire(m)
  \/ \E g \in 1..MaxGri : GriResume(g)

Spec == Init /\ [][Next]_vars

\* what happens without the user: every network request settles, every
\* timer fires, every continuation runs and React commits its renders
Settling ==
  \/ Render
  \/ \E l \in 1..MaxLoads : InitialTimeout(l)
  \/ \E l \in 1..MaxLoads, outcome \in ChatTestOutcomes : ChatTestSettle(l, outcome)
  \/ \E d \in 1..MaxDirect : AvailStockDone(d)
  \/ \E l \in 1..MaxLoads : InitialRaceDone(l)
  \/ \E l \in 1..MaxLoads : FallbackDone(l)
  \/ \E l \in 1..MaxLoads, outcome \in HealthOutcomes : HealthSettle(l, outcome)
  \/ \E g \in 1..MaxGri, variation \in PortfolioVariations : GriToLoad(g, variation)
  \/ \E l \in 1..MaxLoads, outcome \in RateOutcomes, variation \in RateVariations :
       ExchangeSettle(l, outcome, variation)
  \/ \E l \in 1..MaxLoads, outcome \in InsightOutcomes : InsightsSettle(l, outcome)
  \/ \E l \in 1..MaxLoads : LoadRealTimeDone(l)
  \/ \E r \in ReqIds, resp \in BackendResponses : FetchSettle(r, resp)
  \/ \E m \in 1..MaxMulti : MultiBatchDone(m)
  \/ \E m \in 1..MaxMulti : MultiDelayFire(m)
  \/ \E g \in 1..MaxGri : GriResume(g)

\* the refresh button is pressed while no execution is running
RefreshWhenIdle ==
  /\ \A l \in DOMAIN loads : loads[l].pc = "end"
  /\ UserRefresh

\* the application with a user who asks for a refresh when nothing is
\* loading
NextLive ==
  \/ RefreshWhenIdle
  \/ Settling

\* something is left to settle, fire, run or render: the condition under
\* which a step of Settling can be taken
SettlePending ==
  \/ MicroPending
  \/ ~mounted \/ view # Closure(st)
  \/ \E l \in DOMAIN loads : loads[l].waiting # {} \/ loads[l].pc = "race"
  \/ \E r \in DOMAIN reqs : ~reqs[r].settled
  \/ \E m \in DOMAIN multi : multi[m].phase = "delay"

\* a step of Settling: of the steps of NextLive, those that are no event
\* of the user
SettleStep == callsMade' = callsMade

\* weak fairness of Settling, written out with its enabling condition
SettlingIsFair == []<>(~SettlePending) \/ []<><<SettleStep>>_vars

\* the application when React commits its renders, every request an
\* execution awaits settles, every timer fires and every continuation runs
SpecLive == Init /\ [][NextLive]_vars /\ WF_vars(Render) /\ SettlingIsFair

\* the application with a user who only asks for refreshes, against a
\* backend that goes down while loads are running
NextLoad ==
  \/ Render
  \/ UserRefresh
  \/ BackendDrop
  \/ \E l \in 1..MaxLoads : InitialTimeout(l)
  \/ \E l \in 1..MaxLoads, outcome \in ChatTestOutcomes : ChatTestSettle(l, outcome)
  \/ \E d \in 1..MaxDirect : AvailStockDone(d)
  \/ \E l \in 1..MaxLoads : InitialRaceDone(l)
  \/ \E l \in 1..MaxLoads : FallbackDone(l)
  \/ \E l \in 1..MaxLoads, outcome \in HealthOutcomes : HealthSettle(l, outcome)
  \/ \E g \in 1..MaxGri, variation \in PortfolioVariations : GriToLoad(g, variation)
  \/ \E l \in 1..MaxLoads, outcome \in RateOutcomes, variation \in RateVariations :
       ExchangeSettle(l, outcome, variation)
  \/ \E l \in 1..MaxLoads, outcome \in InsightOutcomes : InsightsSettle(l, outcome)
  \/ \E l \in 1..MaxLoads : LoadRealTimeDone(l)
  \/ \E r \in ReqIds, resp \in BackendResponses : FetchSettle(r, resp)
  \/ \E m \in 1..MaxMulti : MultiBatchDone(m)
  \/ \E m \in 1..MaxMulti : MultiDelayFire(m)
  \/ \E g \in 1..MaxGri : GriResume(g)

SpecLoad == Init /\ [][NextLoad]_vars

\* retryRequest with its caller: the default number of attempts and the
\* smaller ones
NextRetry ==
  \/ \E maxAttempts \in 1..RETRY_MAX_ATTEMPTS : CallRetryRequest(maxAttempts)
  \/ \E outcome \in RequestFnOutcomes : RequestFnSettle(outcome)
  \/ RetryDelayFire
  \/ RetryReturn

SpecRetry == Init /\ [][NextRetry]_vars

\* ========================================================= stock service
\* every getStockPrice call alive: direct ones and the slots of a batch
CallRefs ==
  { << "direct", d, 0 >> : d \in DOMAIN direct }
    \cup UNION { { << "multi", m, k >> : k \in DOMAIN multi[m].slots } : m \in DOMAIN multi }
CallOf(c) == IF c[1] = "direct" THEN direct[c[2]] ELSE multi[c[2]].slots[c[3]]
InFlight(symbol) == { r \in DOMAIN reqs : reqs[r].sym = symbol /\ ~reqs[r].settled }
Awaiting(r) == { c \in CallRefs : CallOf(c).req = r }

\* C1: de-duplication. At any time at most one network request is in flight
\* for a symbol; every getStockPrice call that is still waiting waits for
\* that one request; and every call that was answered by a request returned
\* exactly the result of that request.
C1_Deduplication ==
  /\ \A i \in 1..Len(ListUniverse) : Cardinality(InFlight(ListUniverse[i])) <= 1
  /\ \A c \in CallRefs :
       /\ ~CallOf(c).done => CallOf(c).req \in InFlight(CallOf(c).sym)
       /\ (CallOf(c).done /\ CallOf(c).req # NoReq) =>
             /\ CallOf(c).req \in DOMAIN reqs
             /\ reqs[CallOf(c).req].settled
             /\ CallOf(c).val = reqs[CallOf(c).req].result

\* C1 witness: one settled, successful request has answered two callers
C1_Witness ==
  \E r \in DOMAIN reqs :
    /\ reqs[r].settled /\ reqs[r].result # Null
    /\ Cardinality({ c \in Awaiting(r) : CallOf(c).done /\ CallOf(c).val = reqs[r].result }) >= 2

\* C2: cache hit. A getStockPrice call made while the cache holds an entry
\* of the symbol younger than 120 s is answered at once with the data
\* object of that entry, and the call changes neither the requests nor the
\* cache; a call made when the entry is 120 s old or older, or absent, is
\* not answered from the cache: it waits for a network request.
C2_CacheHit ==
  [][ \A d \in (DOMAIN direct') \ (DOMAIN direct) :
        LET c == direct'[d]
        IN IF c.sym \in DOMAIN cache /\ now - cache[c.sym].timestamp < CACHE_DURATION
           THEN /\ c.done /\ c.val = Some(cache[c.sym].data)
                /\ reqs' = reqs /\ pendingRequests' = pendingRequests /\ cache' = cache
           ELSE /\ ~c.done /\ c.req \in DOMAIN reqs' /\ ~reqs'[c.req].settled
                /\ reqs'[c.req].sym = c.sym ]_vars

\* C2 witness: a call has just been answered from an entry of positive age
C2_Witness ==
  \E d \in DOMAIN direct :
    /\ direct[d].how = "cache" /\ direct[d].done
    /\ direct[d].sym \in DOMAIN cache
    /\ now - cache[direct[d].sym].timestamp > 0
    /\ direct[d].val = Some(cache[direct[d].sym].data)

OwnInFlight(m) == { r \in DOMAIN reqs : reqs[r].by = m /\ ~reqs[r].settled }

\* C3 as claimed: never more than 3 requests issued through
\* getMultipleStockPrices are in flight, overlapping invocations included.
C3_AtMostThreeInFlight ==
  Cardinality({ r \in DOMAIN reqs : reqs[r].by # 0 /\ ~reqs[r].settled }) <= batchSize

\* C3 amended: each getMultipleStockPrices invocation awaits at most 3
\* getStockPrice calls and has at most 3 requests of its own in flight.
C3_AtMostThreePerInvocation ==
  \A m \in DOMAIN multi :
    /\ Len(multi[m].slots) <= batchSize
    /\ Cardinality(OwnInFlight(m)) <= batchSize

\* C3 witness: two invocations overlap, one of them with 3 requests of its
\* own in flight
C3_Witness ==
  /\ Cardinality(DOMAIN multi) = 2
  /\ \E m \in DOMAIN multi : Cardinality(OwnInFlight(m)) = batchSize

\* C4: batch ordering. A request issued by an invocation is in flight only
\* while the invocation awaits the batch the request belongs to, so nothing
\* of a later batch is issued before the preceding batch has settled; the
\* loop moves to the next batch only when the 500 ms timer armed after the
\* preceding batch fires; and the timer is armed once between consecutive
\* batches and not after the last: ceil(n/3) - 1 times for n symbols.
BatchSymbols(inv) ==
  { inv.symbols[k] : k \in (inv.i + 1)..Min(inv.i + batchSize, Len(inv.symbols)) }
C4_Frame(mm, rr) ==
  \A m \in DOMAIN mm :
    LET inv == mm[m]
        n   == Len(inv.symbols)
    IN /\ \A r \in DOMAIN rr : (rr[r].by = m /\ ~rr[r].settled) =>
             inv.phase = "batch" /\ rr[r].sym \in BatchSymbols(inv)
       /\ inv.phase = "batch" => inv.delays = inv.i \div batchSize /\ inv.timer = 0
       /\ inv.phase = "delay" =>
             /\ inv.delays = inv.i \div batchSize + 1 /\ inv.timer = BATCH_DELAY
             /\ inv.i + batchSize < n
       /\ (inv.phase = "done" /\ n > 0) =>
             inv.delays = (n + batchSize - 1) \div batchSize - 1 /\ inv.timer = 0
C4_BatchOrdering ==
  [][ /\ C4_Frame(multi', reqs')
      /\ \A m \in (DOMAIN multi) \cap (DOMAIN multi') :
           multi'[m].i # multi[m].i =>
             /\ multi[m].phase = "delay" /\ multi[m].timer = BATCH_DELAY
             /\ OwnInFlight(m) = {}
             /\ multi'[m].i = multi[m].i + batchSize ]_vars

\* C4 witness: the second batch of a 4-symbol list is in flight after one
\* delay
C4_Witness ==
  \E m \in DOMAIN multi :
    /\ Len(multi[m].symbols) = batchSize + 1 /\ multi[m].i = batchSize
    /\ multi[m].phase = "batch" /\ multi[m].delays = 1 /\ Cardinality(OwnInFlight(m)) = 1

\* C10: a failed fetch. When the request of fetchStockData ends in a network
\* error, a non-2xx status or a response that cannot be parsed, every
\* getStockPrice call awaiting it resolves to null, and the symbol cache is
\* left exactly as it was.
FailedResponse(resp) ==
  resp.kind \in {"neterr", "http", "badjson", "noanswer"} \/ resp.price = Null
C10_FailureIsNull ==
  [][ \A r \in DOMAIN reqs :
        (~reqs[r].settled /\ r \in DOMAIN reqs' /\ reqs'[r].settled
           /\ FailedResponse(reqs'[r].response[1])) =>
          /\ cache' = cache
          /\ reqs'[r].result = Null
          /\ \A d \in DOMAIN direct : direct[d].req = r =>
               d \in DOMAIN direct' /\ direct'[d].done /\ direct'[d].val = Null ]_vars

\* C10 witness: a request has failed while the cache holds an older entry
\* of the same symbol, and its caller has null
C10_Witness ==
  \E r \in DOMAIN reqs, d \in DOMAIN direct :
    /\ reqs[r].settled /\ reqs[r].response[1].kind = "http"
    /\ reqs[r].sym \in DOMAIN cache
    /\ direct[d].req = r /\ direct[d].done /\ direct[d].val = Null

\* ---- C5
\* the fallback table of the specification: ticker and price in cents
C5_FallbackTable ==
  << << "AAPL", 17523 >>, << "GOOGL", 284756 >>, << "MSFT", 33178 >>,
     << "TSLA", 24850 >>, << "NVDA", 87530 >> >>

C5_Table(result) == [k \in 1..Len(result) |-> << result[k].ticker, result[k].price >>]

\* C5 as stated: whenever the backend was unreachable for the whole of a
\* getRealTimeInvestments call, whatever the caches held, the call returns
\* exactly the fallback table.
C5_FallbackWheneverDown ==
  \A g \in DOMAIN gri :
    (gri[g].done /\ gri[g].down) => C5_Table(gri[g].result) = C5_FallbackTable

\* C5 (amended): when the backend was unreachable for the whole of a
\* getRealTimeInvestments call and, when the call started, neither the
\* investment cache nor the symbol cache held a fresh entry, the call returns
\* exactly the fallback table: the five configured tickers in order, each
\* with its fallback price.
C5_FallbackWhenDownAndCold ==
  \A g \in DOMAIN gri :
    (gri[g].done /\ gri[g].down /\ gri[g].cold)
      => C5_Table(gri[g].result) = C5_FallbackTable

\* a call made after an earlier one returned, against a backend that was down
\* and with nothing fresh in the caches, has returned
C5_Witness ==
  \E g \in DOMAIN gri :
    /\ gri[g].done /\ gri[g].down /\ gri[g].cold
    /\ Len(gri[g].result) = Len(USER_PORTFOLIO_CONFIG)
    /\ callsMade > 1

\* ========================================================== DataContext
\* ---- C6
\* C6: a press of the toggle made from a render in which real-time was
\* enabled disables it and invokes refreshData not at all; a press made from
\* a render in which it was disabled enables it and invokes refreshData
\* exactly once; and whenever the committed render has isRealTimeEnabled
\* false, no polling interval is armed.
C6_ToggleRefreshesOnce ==
  [][ /\ UserToggle =>
           /\ st'.isRealTimeEnabled = ~view.isRealTimeEnabled
           /\ refreshCalls' = refreshCalls + (IF view.isRealTimeEnabled THEN 0 ELSE 1)
      /\ (mounted' /\ ~view'.isRealTimeEnabled) => interval' = Null ]_vars

\* real-time was toggled off, the render without it was committed (no
\* interval), and the toggle was pressed again: of the two presses only the
\* second invoked refreshData
C6_Witness ==
  /\ mounted /\ ~view.isRealTimeEnabled /\ interval = Null
  /\ st.isRealTimeEnabled
  /\ callsMade = 2 /\ refreshCalls = 1

\* ---- C7
\* C7: when the toggle re-enables real-time while no load is in progress,
\* the refresh it triggers is a real one made at once: after the press a
\* refreshData execution is waiting for the health probe.
C7_ReenableProbesBackend ==
  [][ (UserToggle /\ ~view.isRealTimeEnabled /\ ~view.isLoading
         /\ ~st.isLoading /\ loads = EmptyMap)
        => \E l \in DOMAIN loads' :
             loads'[l].kind = "refresh" /\ "health" \in loads'[l].waiting ]_vars

\* ---- C8
\* C8: refresh is never re-entered: at any time at most one execution of
\* loadInitialData or refreshData is between setting isLoading to true and
\* its finally block.
C8_NoReentry ==
  Cardinality({ l \in DOMAIN loads : loads[l].pc # "end" }) <= 1

\* ---- C9
\* C9: when the health probe of a refreshData execution reports the backend
\* unavailable, the execution finishes in that step with isRealTimeEnabled
\* false, an error set and isLoading false; investments, portfolioData,
\* exchangeRateData and marketInsights are as before; and neither the
\* symbol cache nor the investment cache is touched.
C9_UnavailableProbe ==
  [][ \A l \in 1..MaxLoads :
        (HealthSettle(l, "status") \/ HealthSettle(l, "error")) =>
          /\ l \notin DOMAIN loads'
          /\ ~st'.isRealTimeEnabled /\ st'.error # Null /\ ~st'.isLoading
          /\ st'.investments = st.investments
          /\ st'.portfolioData = st.portfolioData
          /\ st'.exchangeRateData = st.exchangeRateData
          /\ st'.marketInsights = st.marketInsights
          /\ cache' = cache
          /\ investmentCache' = investmentCache
          /\ lastInvestmentUpdate' = lastInvestmentUpdate ]_vars

\* a refresh made after the initial load put live or fallback data on
\* display has ended on a failed probe
C9_Witness ==
  /\ st.error = Some("Backend unavailable. Using cached data.")
  /\ ~st.isRealTimeEnabled /\ ~st.isLoading
  /\ st.investments # << >>
  /\ loads = EmptyMap

\* ---- C11
\* C11: the pending marker of a symbol is cleared when its fetch settles:
\* every entry of pendingRequests is a request of that symbol that has not
\* settled; when no getStockPrice call is outstanding the map is empty; and
\* no call waits for a promise that has already settled.
C11_PendingCleared ==
  /\ \A s \in DOMAIN pendingRequests :
       /\ pendingRequests[s] \in DOMAIN reqs
       /\ reqs[pendingRequests[s]].sym = s
       /\ ~reqs[pendingRequests[s]].settled
  /\ (\A c \in CallRefs : CallOf(c).done) => pendingRequests = EmptyMap
  /\ \A c \in CallRefs : ~CallOf(c).done => ~reqs[CallOf(c).req].settled

\* a call made after the entry of its symbol expired waits for a request of
\* its own: the request that filled the entry left no marker behind
C11_Witness ==
  \E d \in DOMAIN direct :
    /\ ~direct[d].done /\ direct[d].how = "fetch"
    /\ direct[d].sym \in DOMAIN cache
    /\ now - cache[direct[d].sym].timestamp >= CACHE_DURATION
    /\ pendingRequests[direct[d].sym] = direct[d].req

\* ---- C12
StockPriceFields ==
  { "symbol", "name", "current_price", "change", "change_percent", "previous_close",
    "open", "high", "low", "volume", "market_cap", "last_updated" }

\* C12: for every answer text a request has settled with, parseStockResponse
\* gave null when 'Current Price' was not matched, whichever other fields
\* were; and when it was matched it gave an object with every field, in
\* which an unmatched change is 0 with percentage 0, an unmatched previous
\* close is price - change and an unmatched volume is 0.
C12_ParseNullOrComplete ==
  \A r \in DOMAIN reqs :
    (reqs[r].settled /\ reqs[r].response[1].kind = "answer") =>
      LET text == reqs[r].response[1]
          data == reqs[r].result
      IN IF text.price = Null THEN data = Null
         ELSE /\ data # Null
              /\ DOMAIN data[1] = StockPriceFields
              /\ data[1].current_price = 285055
              /\ text.change = Null => data[1].change = 0 /\ data[1].change_percent = 0
              /\ text.change # Null => data[1].change = 1230 /\ data[1].change_percent = 43
              /\ text.prev = Null => data[1].previous_close = data[1].current_price - data[1].change
              /\ text.prev # Null => data[1].previous_close = 283825
              /\ text.volume = Null => data[1].volume = 0
              /\ text.volume # Null => data[1].volume = 1234567

\* an answer text with the price and nothing else has been parsed into an
\* object, and the caller holds it
C12_Witness ==
  \E r \in DOMAIN reqs, d \in DOMAIN direct :
    /\ reqs[r].settled /\ reqs[r].response[1].kind = "answer"
    /\ reqs[r].response[1].price # Null /\ reqs[r].response[1].change = Null
    /\ reqs[r].response[1].prev = Null /\ reqs[r].response[1].volume = Null
    /\ direct[d].req = r /\ direct[d].done /\ direct[d].val = reqs[r].result
    /\ reqs[r].result # Null /\ reqs[r].result[1].previous_close = 285055

\* ---- C13
\* C13: when a batch of getMultipleStockPrices has resolved, the map gains
\* exactly the symbols of the batch whose getStockPrice result was not null,
\* each with that result, and keeps every entry it had; the loop goes on to
\* the next batch whenever symbols remain, whatever failed; and the map
\* returned has only requested symbols as keys.
C13_ResultMap ==
  [][ \A m \in DOMAIN multi :
        (BatchSettled(multi[m]) /\ m \in DOMAIN multi' /\ multi'[m].slots = << >>) =>
          LET inv == multi[m]
              got == { k \in DOMAIN inv.slots : inv.slots[k].val # Null }
              new == multi'[m].results
          IN /\ DOMAIN new = (DOMAIN inv.results) \cup { inv.slots[k].sym : k \in got }
             /\ \A k \in got : new[inv.slots[k].sym] = inv.slots[k].val[1]
             /\ \A s \in DOMAIN inv.results :
                  (\A k \in got : inv.slots[k].sym # s) => new[s] = inv.results[s]
             /\ (multi'[m].phase = "done") <=> (inv.i + Len(inv.slots) >= Len(inv.symbols))
             /\ multi'[m].phase \in {"done", "delay"}
             /\ multi'[m].phase = "done" =>
                  DOMAIN new \subseteq { inv.symbols[k] : k \in DOMAIN inv.symbols } ]_vars

\* a list of four has been processed: the first symbol failed, the second
\* of the same batch and the one of the second batch are in the map
C13_Witness ==
  \E m \in DOMAIN multi :
    /\ multi[m].phase = "done" /\ Len(multi[m].symbols) = batchSize + 1
    /\ multi[m].symbols[1] \notin DOMAIN multi[m].results
    /\ multi[m].symbols[2] \in DOMAIN multi[m].results
    /\ multi[m].symbols[batchSize + 1] \in DOMAIN multi[m].results

\* ---- C14
WellFormedInvestments(list) ==
  /\ Len(list) = Len(USER_PORTFOLIO_CONFIG)
  /\ \A k \in 1..Len(list) :
       /\ list[k].ticker = USER_PORTFOLIO_CONFIG[k].ticker
       /\ list[k].quantity = USER_PORTFOLIO_CONFIG[k].quantity
       /\ list[k].purchaseValue = USER_PORTFOLIO_CONFIG[k].purchaseValue
       /\ list[k].price > 0 /\ list[k].currentValue > 0
       /\ list[k].id = ToString(k) /\ list[k].name # ""
WellFormedSeries(series, n) ==
  /\ Len(series.data) = n /\ Len(series.labels) = n
  /\ \A k \in 1..n : series.data[k] \in Nat
WellFormedInsights(list) ==
  /\ Len(list) \in 1..3
  /\ \A k \in 1..Len(list) : list[k] # ""

\* what the provider calls of loadRealTimeData hand to Promise.all, whatever
\* the backend did: wellFormed, and for a call of getRealTimeExchangeRates
\* or getMarketInsights whose request failed the static content
C14_Parts(portfolioOnFailure(_, _)) ==
  \A l \in (DOMAIN loads) \cap (DOMAIN loads') :
    LET old == loads[l].parts
        new == loads'[l].parts
    IN /\ (old.exch = Null /\ new.exch # Null) =>
            /\ WellFormedSeries(new.exch[1], 7)
            /\ ~backendUp => new.exch[1] = InitialExchangeRateData
       /\ (old.ins = Null /\ new.ins # Null) =>
            /\ WellFormedInsights(new.ins[1])
            /\ ~backendUp => new.ins[1] = getFallbackInsights
       /\ (old.inv = Null /\ new.inv # Null) =>
            \E g \in DOMAIN gri :
              /\ gri[g].done /\ gri[g].owner = "inv" /\ gri[g].load = l
              /\ new.inv[1] = gri[g].result
              /\ WellFormedInvestments(new.inv[1])
       /\ (old.port = Null /\ new.port # Null) =>
            \E g \in DOMAIN gri :
              /\ gri[g].done /\ gri[g].owner = "port" /\ gri[g].load = l
              /\ WellFormedSeries(new.port[1], 6)
              /\ \A k \in 1..6 : new.port[1].data[k] \in 5000..15000
              /\ gri[g].result = getFallbackInvestments =>
                   portfolioOnFailure(gri[g], new.port[1])
       /\ \A g \in (DOMAIN gri) \cap (DOMAIN gri') :
            (~gri[g].done /\ gri'[g].done /\ gri[g].load = l) =>
              /\ WellFormedInvestments(gri'[g].result)
              /\ \A k \in 1..Len(USER_PORTFOLIO_CONFIG) :
                   USER_PORTFOLIO_CONFIG[k].ticker \notin DOMAIN multi[gri[g].multi].results
                     => gri'[g].result[k] = getFallbackInvestment(USER_PORTFOLIO_CONFIG[k], k - 1)
       /\ (loads[l].pc = "loadRT" /\ loads'[l].pc # "loadRT") =>
            /\ LoadRealTimeReady(loads[l])
            /\ st'.investments = old.inv[1] /\ st'.portfolioData = old.port[1]
            /\ st'.exchangeRateData = old.exch[1] /\ st'.marketInsights = old.ins[1]
            /\ st'.error = Null

C14_StaticPortfolio(call, series) == series = InitialPortfolioData
C14_ComputedPortfolio(call, series) ==
  \E variation \in PortfolioVariations :
    series = PortfolioSeries(getFallbackInvestments, variation)

\* C14 as stated: each of the four provider calls resolves to a well-formed
\* value, and a call whose remote requests failed returns its static
\* fallback content, the six static points for getRealTimePortfolioData.
C14_StaticFallbackOnFailure == [][C14_Parts(C14_StaticPortfolio)]_vars

\* C14 (amended): each of the four provider calls resolves to a well-formed
\* value whatever the backend does, and loadRealTimeData always goes on to
\* set the four results.  When their request fails, getRealTimeExchangeRates
\* and getMarketInsights return their static content, and
\* getRealTimeInvestments gives every position whose price it did not get
\* its fallback values; getRealTimePortfolioData then returns a series
\* generated from the fallback positions, within 50..150, not its static one.
C14_WellFormedOnFailure == [][C14_Parts(C14_ComputedPortfolio)]_vars

\* a load holds the four results of calls that all met a backend that was
\* down: fallback positions, the generated series, the static rates and
\* the static insights
C14_Witness ==
  \E l \in DOMAIN loads :
    /\ LoadRealTimeReady(loads[l]) /\ ~backendUp
    /\ loads[l].parts.inv[1] = getFallbackInvestments
    /\ loads[l].parts.port[1] # InitialPortfolioData
    /\ loads[l].parts.exch[1] = InitialExchangeRateData
    /\ loads[l].parts.ins[1] = getFallbackInsights

\* ---- C15
\* the mount effect has run and the loadInitialData it started has passed
\* its finally block
InitialLoadCompleted ==
  /\ mounted
  /\ \A l \in DOMAIN loads : loads[l].kind = "initial" => loads[l].pc = "end"

\* C15: once loadInitialData has completed, investments holds the five
\* configured positions in order, each with its live or its fallback values,
\* whatever refreshes, toggles, dismissals and backend failures follow.
C15_FivePositions ==
  InitialLoadCompleted =>
    /\ WellFormedInvestments(st.investments)
    /\ \A k \in 1..Len(USER_PORTFOLIO_CONFIG) :
         \/ st.investments[k] = getFallbackInvestment(USER_PORTFOLIO_CONFIG[k], k - 1)
         \/ \E p \in LivePrices : st.investments[k].price = RoundDiv(p * 12, 1000)

\* the initial load has completed and a refresh has run to its end after it
C15_Witness ==
  /\ InitialLoadCompleted /\ loads = EmptyMap
  /\ refreshCalls >= 1 /\ ~st.isLoading
  /\ Len(st.investments) = Len(USER_PORTFOLIO_CONFIG)

\* ---- C16
\* C16: when Promise.race of loadInitialData settles, a probe that answered
\* true sends it to loadRealTimeData, and a probe that answered false (a
\* throw inside it included) or the timer sends it to loadFallbackData; and
\* when loadInitialData completes, isLoading is false and either the
\* real-time results have been set with error null, or investments is the
\* fallback list with error non-null.
C16_InitialLoadBranches ==
  [][ \A l \in DOMAIN loads :
        loads[l].kind = "initial" =>
          LET frame == loads[l]
              gone  == l \notin DOMAIN loads' \/ loads'[l].pc = "end"
          IN /\ (frame.pc = "race" /\ ~gone /\ loads'[l].pc # "race") =>
                  IF frame.avail.pc = "done"
                  THEN loads'[l].pc = (IF frame.avail.val THEN "loadRT" ELSE "fallbackElse")
                  ELSE loads'[l].pc = "fallbackCatch" /\ st'.error # Null
             /\ (frame.pc # "end" /\ gone) =>
                  /\ ~st'.isLoading
                  /\ frame.pc \in {"loadRT", "fallbackElse", "fallbackCatch"}
                  /\ frame.pc = "loadRT" =>
                       /\ frame.isAvailable
                       /\ st'.error = Null
                       /\ st'.investments = frame.parts.inv[1]
                       /\ st'.lastUpdated # Null
                  /\ frame.pc \in {"fallbackElse", "fallbackCatch"} =>
                       /\ frame.pc = "fallbackElse" => ~frame.isAvailable
                       /\ st'.error # Null
                       /\ st'.investments = getFallbackInvestments ]_vars

\* the timer won the race and loadInitialData has completed while the
\* probe it started is still running
C16_Witness ==
  \E l \in DOMAIN loads :
    /\ loads[l].kind = "initial" /\ loads[l].pc = "end"
    /\ loads[l].avail.pc \in {"chat", "stock"}
    /\ st.investments = getFallbackInvestments
    /\ st.error # Null /\ ~st.isLoading

\* ---- C17
\* C17: dismissing the error sets error to null and nothing else: no
\* refreshData call, no load, no request and no provider call is started,
\* and isLoading, isRealTimeEnabled, lastUpdated and the data are unchanged.
C17_ClearErrorOnly ==
  [][ UserClearError =>
        /\ st' = [st EXCEPT !.error = Null]
        /\ st'.isLoading = st.isLoading
        /\ st'.isRealTimeEnabled = st.isRealTimeEnabled
        /\ st'.lastUpdated = st.lastUpdated
        /\ st'.investments = st.investments
        /\ refreshCalls' = refreshCalls
        /\ loads' = loads
        /\ UNCHANGED << svcVars, provVars, uiVars >> ]_vars

\* the initial load fell back and set its error, and the only event since
\* has dismissed it
C17_Witness ==
  /\ InitialLoadCompleted /\ st.investments = getFallbackInvestments
  /\ st.error = Null /\ st.isRealTimeEnabled
  /\ callsMade = 1 /\ refreshCalls = 0

\* ---- C18
\* C18: once refreshAllData has returned, the investment cache holds the list
\* it built, and no price of that list comes from a request that was started
\* before the invalidation: the calls of the first batch, made in the same
\* turn as clearCache, each start a request of their own, so that none of
\* them returns the value of a request it found in flight.
C18_NoResultFromBeforeInvalidation ==
  \A g \in DOMAIN gri :
    gri[g].op = "refreshAllData" =>
      IF gri[g].done
      THEN investmentCache = Some(gri[g].result)
      ELSE LET inv == multi[gri[g].multi]
           IN inv.i = 0 =>
                \A k \in DOMAIN inv.slots :
                  ~(inv.slots[k].how = "join" /\ inv.slots[k].done /\ inv.slots[k].val # Null)

C20_InvestmentCacheWindow ==
  [][ \A g \in (DOMAIN gri') \ (DOMAIN gri) :
        (gri'[g].op = "getRealTimeInvestments" /\ investmentCache # Null) =>
          IF now - lastInvestmentUpdate < 300000
          THEN /\ gri'[g].done /\ gri'[g].result = investmentCache[1]
               /\ multi' = multi /\ reqs' = reqs /\ pendingRequests' = pendingRequests
               /\ investmentCache' = investmentCache
          ELSE /\ ~gri'[g].done
               /\ gri'[g].multi \in (DOMAIN multi') \ (DOMAIN multi)
               /\ multi'[gri'[g].multi].symbols = ConfigSymbols ]_vars

\* a call made exactly 300 s after the fill is fetching again
C20_Witness ==
  \E g \in DOMAIN gri :
    /\ gri[g].op = "getRealTimeInvestments" /\ ~gri[g].done
    /\ investmentCache # Null
    /\ now - lastInvestmentUpdate = INV_CACHE_DURATION
    /\ gri[g].multi \in DOMAIN multi

\* ---- C21
\* C21: every list getRealTimeInvestments returns has one position per
\* configured ticker, in configuration order, with ids 1..5 and the
\* configured quantity and purchase value; and when it builds the list, each
\* position has the live price (INR at 0.012, two decimals) exactly when the
\* price map holds its ticker, and otherwise is the fallback position,
\* whatever the other tickers got.
C21_PerPositionFallback ==
  [][ \A g \in DOMAIN gri' :
        gri'[g].done =>
          /\ Len(gri'[g].result) = Len(USER_PORTFOLIO_CONFIG)
          /\ \A k \in 1..Len(USER_PORTFOLIO_CONFIG) :
               LET config   == USER_PORTFOLIO_CONFIG[k]
                   position == gri'[g].result[k]
               IN /\ position.ticker = config.ticker /\ position.id = ToString(k)
                  /\ position.quantity = config.quantity
                  /\ position.purchaseValue = config.purchaseValue
                  /\ (g \in DOMAIN gri /\ ~gri[g].done) =>
                       LET stockPrices == multi[gri[g].multi].results
                       IN IF config.ticker \in DOMAIN stockPrices
                          THEN /\ position.price =
                                    RoundDiv(stockPrices[config.ticker].current_price * 12, 1000)
                               /\ position.currentValue =
                                    RoundDiv(stockPrices[config.ticker].current_price * 12
                                               * config.quantity, 1000)
                               /\ position.name = stockPrices[config.ticker].name
                          ELSE /\ position.price = fallbackPrices(config.ticker).price
                               /\ position = getFallbackInvestment(config, k - 1) ]_vars

\* a list has been returned in which the first position is live and the
\* second a fallback
C21_Witness ==
  \E g \in DOMAIN gri :
    /\ gri[g].done /\ gri[g].via = "fetch"
    /\ gri[g].result[1].price # fallbackPrices("AAPL").price
    /\ gri[g].result[2] = getFallbackInvestment(USER_PORTFOLIO_CONFIG[2], 1)
    /\ gri[g].result[3].price # fallbackPrices("MSFT").price

\* ---- C22
\* C22: the data slices of the DataContext state change only in the step in
\* which a loadRealTimeData whose four provider calls have all returned sets
\* the four results and lastUpdated together, or in the step of
\* loadFallbackData; while any of the four calls of a loadRealTimeData is
\* outstanding, that execution writes none of them.
C22_JointCommit ==
  [][ (\/ st'.investments # st.investments
       \/ st'.portfolioData # st.portfolioData
       \/ st'.exchangeRateData # st.exchangeRateData
       \/ st'.marketInsights # st.marketInsights
       \/ st'.lastUpdated # st.lastUpdated) =>
        \E l \in DOMAIN loads :
          \/ /\ LoadRealTimeReady(loads[l])
             /\ st'.investments = loads[l].parts.inv[1]
             /\ st'.portfolioData = loads[l].parts.port[1]
             /\ st'.exchangeRateData = loads[l].parts.exch[1]
             /\ st'.marketInsights = loads[l].parts.ins[1]
             /\ st'.lastUpdated = Some(now)
             /\ (l \notin DOMAIN loads' \/ loads'[l].pc = "end")
          \/ /\ loads[l].pc \in {"fallbackElse", "fallbackCatch"}
             /\ st'.investments = getFallbackInvestments
             /\ st'.portfolioData = st.portfolioData
             /\ st'.exchangeRateData = st.exchangeRateData
             /\ st'.marketInsights = st.marketInsights ]_vars

\* a loadRealTimeData has set its four results
C22_Witness ==
  /\ Len(st.investments) = Len(USER_PORTFOLIO_CONFIG)
  /\ st.investments # getFallbackInvestments
  /\ st.portfolioData # InitialPortfolioData
  /\ st.exchangeRateData # InitialExchangeRateData
  /\ st.marketInsights # InitialMarketInsights
  /\ st.lastUpdated # Null /\ st.error = Null

\* ---- C23
\* C23: the polling interval exists only while the provider is mounted and
\* the committed render has isRealTimeEnabled true, and a tick of it never
\* starts a refresh while isLoading is true: on such a tick no refreshData
\* execution begins.
C23_TimerLifecycle ==
  [][ /\ interval' # Null => (mounted' /\ view'.isRealTimeEnabled)
      /\ (IntervalTick /\ st.isLoading) => (loads' = loads /\ st' = st) ]_vars

\* ---- C24
\* C24: in every state of the DataContext, and in every value that
\* getRealTimePortfolioData and getRealTimeExchangeRates have handed to a
\* load, generated or static, a series has as many labels as data points:
\* six for the portfolio, seven for the exchange rate.
C24_SeriesLengths ==
  /\ Len(st.portfolioData.data) = 6 /\ Len(st.portfolioData.labels) = 6
  /\ Len(st.exchangeRateData.data) = 7 /\ Len(st.exchangeRateData.labels) = 7
  /\ \A l \in DOMAIN loads :
       /\ loads[l].parts.port # Null =>
            /\ Len(loads[l].parts.port[1].data) = 6
            /\ Len(loads[l].parts.port[1].labels) = 6
       /\ loads[l].parts.exch # Null =>
            /\ Len(loads[l].parts.exch[1].data) = 7
            /\ Len(loads[l].parts.exch[1].labels) = 7

\* one load has set a generated exchange series, and a later one holds
\* the static series of a failed request beside a generated portfolio series
C24_Witness ==
  /\ st.exchangeRateData # InitialExchangeRateData
  /\ \E l \in DOMAIN loads :
       /\ loads[l].parts.exch = Some(InitialExchangeRateData)
       /\ loads[l].parts.port # Null

\* ---- C25
\* stockDataService.testConnection from the return of getStockPrice('AAPL')
testConnection(call) == call.val # Null

\* C25: testConnection answers true only when the backend answered a price
\* request for AAPL during that call: a call that answers true has awaited
\* a request, its own or one it joined.
C25_ProbeIsLive ==
  \A d \in DOMAIN direct :
    (direct[d].sym = "AAPL" /\ direct[d].done /\ testConnection(direct[d]))
      => direct[d].how \in {"fetch", "join"}

\* ---- C26
\* C26: in offline mode (isRealTimeEnabled false in the state and in the
\* committed render, nothing loading), an invocation of refreshData probes
\* the backend: it starts an execution that awaits testApiConnection.
C26_RefreshReconnects ==
  [][ (/\ UserRefresh
       /\ ~st.isRealTimeEnabled /\ ~view.isRealTimeEnabled
       /\ ~st.isLoading /\ ~view.isLoading) =>
        \E l \in (DOMAIN loads') \ (DOMAIN loads) : "health" \in loads'[l].waiting ]_vars

\* ---- C27
Running(l) == l \in DOMAIN loads /\ loads[l].pc # "end"

\* C27: when every request settles, every execution of loadInitialData and
\* of refreshData comes to its end, and isLoading does not stay true: from
\* any state with isLoading true a state with isLoading false follows.
C27_LoadingEnds ==
  /\ st.isLoading ~> ~st.isLoading
  /\ \A l \in 1..MaxLoads : Running(l) ~> ~Running(l)

\* the initial load and a refresh have both run to their end on the
\* real-time path
C27_Witness ==
  /\ mounted /\ loads = EmptyMap /\ ~st.isLoading
  /\ refreshCalls >= 1 /\ st.isRealTimeEnabled /\ st.error = Null
  /\ st.investments # getFallbackInvestments /\ st.lastUpdated # Null

\* ---- C28
\* C28: every list getRealTimeInvestments builds is stored in the investment
\* cache with the time of the build, a list of fallback positions only
\* included; and while such a list is cached and less than 300 s old, a call
\* of getRealTimeInvestments returns it without any call of the stock
\* service although the backend answers again, whereas refreshAllData
\* empties the cache and fetches.
C28_FallbackListIsCached ==
  [][ \A g \in DOMAIN gri' :
        /\ (g \in DOMAIN gri /\ ~gri[g].done /\ gri'[g].done) =>
             /\ investmentCache' = Some(gri'[g].result)
             /\ lastInvestmentUpdate' = now
        /\ (/\ g \notin DOMAIN gri
            /\ investmentCache = Some(getFallbackInvestments)
            /\ now - lastInvestmentUpdate < 300000
            /\ backendUp) =>
             IF gri'[g].op = "getRealTimeInvestments"
             THEN /\ gri'[g].done /\ gri'[g].result = getFallbackInvestments
                  /\ multi' = multi /\ reqs' = reqs
                  /\ investmentCache' = investmentCache
             ELSE /\ ~gri'[g].done /\ investmentCache' = Null
                  /\ gri'[g].multi \in (DOMAIN multi') \ (DOMAIN multi) ]_vars

\* the backend answers again, time has passed since a fetch in which every
\* symbol failed, and a call has returned the cached fallback list
C28_Witness ==
  \E g \in DOMAIN gri :
    /\ gri[g].done /\ gri[g].via = "cache"
    /\ gri[g].result = getFallbackInvestments
    /\ backendUp /\ now > lastInvestmentUpdate
    /\ investmentCache = Some(getFallbackInvestments)

\* ---- C29
\* the requests a step sends
NewRequests == (DOMAIN reqs') \ (DOMAIN reqs)
\* at most one of the requests a step sends is for any one symbol
OnePerSymbol ==
  \A r1, r2 \in NewRequests : reqs'[r1].sym = reqs'[r2].sym => r1 = r2

\* C29: one execution of refreshData whose probe succeeded runs one round of
\* stock fetches: refreshAllData invokes getMultipleStockPrices once, each
\* batch of that invocation sends at most one request per symbol of the
\* batch, and the getRealTimeInvestments calls of loadRealTimeData (its own
\* and the one of getRealTimePortfolioData) return the list refreshAllData
\* has just cached, invoking nothing and sending nothing.
C29_OneRoundPerRefresh ==
  [][ /\ \A l \in (DOMAIN loads) \cap (DOMAIN loads') :
           loads[l].kind = "refresh" =>
             /\ (loads[l].pc = "probe" /\ loads'[l].pc = "refreshAll") =>
                  /\ \E g \in (DOMAIN gri') \ (DOMAIN gri) :
                       /\ gri'[g].load = l /\ gri'[g].owner = "refreshAll"
                       /\ ~gri'[g].done
                       /\ gri'[g].multi \notin DOMAIN multi
                       /\ DOMAIN multi' = (DOMAIN multi) \cup {gri'[g].multi}
                       /\ \A r \in NewRequests :
                            /\ reqs'[r].by = gri'[g].multi
                            /\ \E k \in 1..batchSize : reqs'[r].sym = ConfigSymbols[k]
                  /\ OnePerSymbol
             /\ (loads[l].pc = "refreshAll" /\ loads'[l].pc = "loadRT") =>
                  /\ DOMAIN multi' \subseteq DOMAIN multi
                  /\ NewRequests = {}
                  /\ investmentCache' # Null
                  /\ \A o \in {"inv", "port"} :
                       \E g \in DOMAIN gri' :
                         /\ gri'[g].load = l /\ gri'[g].owner = o
                         /\ gri'[g].done /\ gri'[g].via = "cache" /\ gri'[g].multi = 0
                         /\ gri'[g].result = investmentCache'[1]
             /\ (loads[l].pc = "loadRT" /\ loads'[l] # loads[l]) =>
                  /\ DOMAIN multi' \subseteq DOMAIN multi
                  /\ NewRequests = {}
      /\ \A m \in (DOMAIN multi) \cap (DOMAIN multi') :
           multi'[m].i > multi[m].i =>
             /\ \A r \in NewRequests :
                  /\ reqs'[r].by = m
                  /\ \E k \in (multi'[m].i + 1)..Len(multi'[m].symbols) :
                       reqs'[r].sym = multi'[m].symbols[k]
             /\ OnePerSymbol ]_vars

\* an execution of refreshData has passed refreshAllData and its
\* getRealTimeInvestments call has returned the cached list
C29_Witness ==
  \E l \in DOMAIN loads : \E g \in DOMAIN gri :
    /\ loads[l].kind = "refresh" /\ loads[l].pc = "loadRT"
    /\ gri[g].load = l /\ gri[g].owner = "inv"
    /\ gri[g].done /\ gri[g].via = "cache"
    /\ \E k \in DOMAIN gri[g].result : gri[g].result[k] # getFallbackInvestments[k]

\* ---- C30
\* C30: the step in which loadFallbackData resumes sets investments to the
\* five fallback positions and lastUpdated to the current time, and leaves
\* portfolioData, exchangeRateData, marketInsights, isRealTimeEnabled, the
\* price cache, the pending requests and the investment cache as they
\* were; it sends no request and invokes nothing of the stock service.
C30_FallbackLoadOnly ==
  [][ \A l \in DOMAIN loads :
        (/\ loads[l].pc \in {"fallbackElse", "fallbackCatch"}
         /\ (l \notin DOMAIN loads' \/ loads'[l].pc = "end")) =>
          /\ st'.investments = getFallbackInvestments
          /\ Len(st'.investments) = 5
          /\ st'.lastUpdated = Some(now)
          /\ st'.portfolioData = st.portfolioData
          /\ st'.exchangeRateData = st.exchangeRateData
          /\ st'.marketInsights = st.marketInsights
          /\ st'.isRealTimeEnabled = st.isRealTimeEnabled
          /\ cache' = cache
          /\ pendingRequests' = pendingRequests
          /\ investmentCache' = investmentCache
          /\ lastInvestmentUpdate' = lastInvestmentUpdate
          /\ (DOMAIN reqs') \subseteq (DOMAIN reqs)
          /\ multi' = multi /\ gri' = gri /\ direct' = direct ]_vars

\* loadFallbackData has run while the price cache held the AAPL entry that
\* the availability probe had fetched
C30_Witness ==
  /\ mounted /\ ~st.isLoading
  /\ st.investments = getFallbackInvestments
  /\ st.lastUpdated # Null
  /\ "AAPL" \in DOMAIN cache
  /\ investmentCache = Null
  /\ refreshCalls = 0
  /\ \A l \in DOMAIN loads : loads[l].pc = "end"

====
